---- MODULE Spec2Model ----
(***************************************************************************)
(* A model of the packfile subsystem of rs-git-lib: the pack index         *)
(* (packfile/index.rs), the delta engine (delta/mod.rs), the object model  *)
(* (store/object.rs), the pack parser and reader (packfile/mod.rs,         *)
(* packfile/packfile_parser.rs), the URL parser (transport/url_parser.rs)  *)
(* and the negotiation request (transport/client/packet.rs).               *)
(*                                                                         *)
(* Byte strings are sequences of 0..255.  Rust offsets are 0-based and are *)
(* kept 0-based here; At(s, i) reads the byte at 0-based position i.       *)
(* Text (hex digests, object headers) is a sequence of ASCII codes.        *)
(* A Rust panic is the result kind "Panic", an Err(..) is "Err".           *)
(* Every u32 and usize of the model stays below 2^31, so the casts         *)
(* `as u32` and `as usize` of the code are the identity on them.           *)
(***************************************************************************)
EXTENDS Integers, Sequences, FiniteSets, TLC

VARIABLES
    objects,   \* index: the (offset, crc, GitObject) list handed to from_objects
    index,     \* index: the PackIndex held, or NoIndex
    idxbytes,  \* index: the byte string last encoded, or the one to parse
    idxorigin, \* index: how the PackIndex held was made: "none", "objects", "parse"
    idxop      \* index: the result of the last operation

idxVars == <<objects, index, idxbytes, idxorigin, idxop>>

VARIABLES
    dsource,   \* delta: the source argument of delta::patch
    ddelta,    \* delta: the delta argument of delta::patch
    patcher    \* delta: the DeltaPatcher, its output buffer and the call's outcome

deltaVars == <<dsource, ddelta, patcher>>

VARIABLES
    gobjs,     \* objects: the GitObjects alive, by slot; NoObject for an empty slot
    gcall      \* objects: the last call and what it returned

objVars == <<gobjs, gcall>>

VARIABLES
    pspec,     \* pack: the entries the input pack was written from
    pbytes,    \* pack: the bytes of the input pack
    pidx,      \* pack: the index read from the pack's .idx file, or NoIndex
    parser,    \* pack: the PackFileParser
    pstatus,   \* pack: where PackFile::parse_with_index is: "slurp", "eof",
               \*       "parsed", or the failure "Err" / "Panic"
    packfile,  \* pack: the PackFile, or NoPack
    pcall      \* pack: the last call on the PackFile and what it returned

packVars == <<pspec, pbytes, pidx, parser, pstatus, packfile, pcall>>

VARIABLES
    sbytes,    \* fetch: the pack the server sends
    sfeed,     \* fetch: the packet lines the server sends before the flush
    snext,     \* fetch: the number of lines read so far
    sparser,   \* fetch: the PackFileParser of receive_packet_file_with_sideband
    sstatus    \* fetch: "recv" in the loop over the lines, "pending" in
               \*        process_pending_lines, "done", or "Err" / "Panic"

streamVars == <<sbytes, sfeed, snext, sparser, sstatus>>

VARIABLES
    uurl,      \* url: the text handed to url_parser::parse, as a sequence of tokens
    udir,      \* url: the dir argument: None, or a Some of a sequence of tokens
    ucall      \* url: what url_parser::parse returned, or [kind |-> "none"]

urlVars == <<uurl, udir, ucall>>

VARIABLES
    qcaps,     \* request: the capabilities argument
    qrefs,     \* request: the refs argument
    qi,        \* request: the position of the loop over refs
    qids,      \* request: the keys of the HashMap ids
    qlines,    \* request: the Vec lines
    qout       \* request: the String returned, or NoRequest before the return

reqVars == <<qcaps, qrefs, qi, qids, qlines, qout>>

VARIABLES
    obytes,    \* offset: the bytes handed to the two read_offset
    ocall      \* offset: what the two read_offset returned, or [op |-> "none"]

ofsVars == <<obytes, ocall>>

otherVars == <<urlVars, reqVars, ofsVars>>

vars == <<idxVars, deltaVars, objVars, packVars, streamVars, otherVars>>

----------------------------------------------------------------------------
(* Bounds of the model *)

\* longest object list handed to from_objects
MaxObjs == 3

\* most bytes in the operation stream of a delta
MaxCmdBytes == 4

\* most entries in a pack
MaxEntries == 3

\* most entries in a pack that is fetched over the side-band
MaxStreamEntries == 1

\* most places at which a fetched pack is cut into packet lines
MaxCuts == 2

\* most entries find_by_offset is followed through before the walk is
\* reported as not ending
MaxWalk == 8

\* most tokens in a text without a scheme handed to url_parser::parse
MaxUrlLen == 5

\* most bytes in an encoded back-offset
MaxOfsLen == 3

\* most entries in a pack whose entries are read back one by one
MaxReadEntries == 2

----------------------------------------------------------------------------
(* Bytes, big-endian words, text *)

Byte == 0..255

At(s, i) == s[i + 1]

\* s[from..to) with 0-based bounds, as a Rust slice
Slice(s, from, to) == SubSeq(s, from + 1, to)

\* s[from..]
SliceFrom(s, from) == SubSeq(s, from + 1, Len(s))

Pow2(n) == 2 ^ n

\* byteorder::WriteBytesExt::write_u32::<BigEndian>
WriteU32(n) ==
    << (n \div 16777216) % 256, (n \div 65536) % 256, (n \div 256) % 256, n % 256 >>

\* byteorder::ReadBytesExt::read_u32::<BigEndian> of the 4 bytes at pos
ReadU32(s, pos) ==
    At(s, pos) * 16777216 + At(s, pos + 1) * 65536 + At(s, pos + 2) * 256 + At(s, pos + 3)

\* the concatenation of the byte strings ss[lo..hi], by halves
RECURSIVE FlattenRange(_, _, _)
FlattenRange(ss, lo, hi) ==
    IF lo > hi THEN <<>>
    ELSE IF lo = hi THEN ss[lo]
    ELSE LET mid == (lo + hi) \div 2
         IN  FlattenRange(ss, lo, mid) \o FlattenRange(ss, mid + 1, hi)

Flatten(ss) == FlattenRange(ss, 1, Len(ss))

\* lexicographic comparison of two byte strings (Ord for [u8] and for str):
\* -1 Less, 0 Equal, 1 Greater
RECURSIVE CmpSeqFrom(_, _, _)
CmpSeqFrom(a, b, i) ==
    IF i > Len(a) /\ i > Len(b) THEN 0
    ELSE IF i > Len(a) THEN -1
    ELSE IF i > Len(b) THEN 1
    ELSE IF a[i] < b[i] THEN -1
    ELSE IF a[i] > b[i] THEN 1
    ELSE CmpSeqFrom(a, b, i + 1)

CmpSeq(a, b) == CmpSeqFrom(a, b, 1)

\* one lowercase hex digit as its ASCII code
HexDigit(n) == IF n < 10 THEN 48 + n ELSE 87 + n

\* rustc_serialize ToHex: two lowercase hex digits per byte
ToHex(bytes) ==
    [i \in 1..(2 * Len(bytes)) |->
        LET b == bytes[(i + 1) \div 2]
        IN  IF i % 2 = 1 THEN HexDigit(b \div 16) ELSE HexDigit(b % 16)]

\* the value of a hex digit of either case, -1 for any other character
HexValue(c) ==
    IF c >= 48 /\ c <= 57 THEN c - 48
    ELSE IF c >= 97 /\ c <= 102 THEN c - 87
    ELSE IF c >= 65 /\ c <= 70 THEN c - 55
    ELSE -1

\* rustc_serialize FromHex: None on an odd length or a character that is no
\* hex digit (whitespace is not modelled), otherwise the bytes
FromHex(text) ==
    IF Len(text) % 2 = 1 \/ \E i \in 1..Len(text) : HexValue(text[i]) < 0
    THEN [ok |-> FALSE, bytes |-> <<>>]
    ELSE [ok |-> TRUE,
          bytes |-> [i \in 1..(Len(text) \div 2) |->
                        HexValue(text[2 * i - 1]) * 16 + HexValue(text[2 * i])]]

----------------------------------------------------------------------------
(* The hashing primitives.  SHA-1 and CRC-32 come from the crypto and crc  *)
(* crates; here each is a checksum of the same shape (a deterministic      *)
(* function of the whole input, 20 bytes resp. 32 bits wide) that changes  *)
(* when any single byte changes.                                           *)

RECURSIVE SumRange(_, _, _)
SumRange(s, lo, hi) ==
    IF lo > hi THEN 0
    ELSE IF lo = hi THEN s[lo]
    ELSE LET mid == (lo + hi) \div 2
         IN  SumRange(s, lo, mid) + SumRange(s, mid + 1, hi)

RECURSIVE WSumRange(_, _, _)
WSumRange(s, lo, hi) ==
    IF lo > hi THEN 0
    ELSE IF lo = hi THEN lo * s[lo]
    ELSE LET mid == (lo + hi) \div 2
         IN  WSumRange(s, lo, mid) + WSumRange(s, mid + 1, hi)

ShaLen == 20

sha1_hash(input) ==
    LET a == SumRange(input, 1, Len(input))
        b == WSumRange(input, 1, Len(input)) + Len(input)
    IN  [i \in 1..ShaLen |-> (a + (i - 1) * b) % 256]

sha1_hash_hex(input) == ToHex(sha1_hash(input))

checksum_ieee(content) ==
    (31 * SumRange(content, 1, Len(content)) + WSumRange(content, 1, Len(content))
        + Len(content)) % 2147483647

----------------------------------------------------------------------------
(* delta/mod.rs: the delta engine *)

\* DeltaHeader::decode_size from the 0-based position pos: bytes are read
\* while the last one read has its top bit set; a read past the end is Err
RECURSIVE decode_size_from(_, _, _, _)
decode_size_from(delta, pos, size, count) ==
    IF pos >= Len(delta) THEN [ok |-> FALSE]
    ELSE LET byte == At(delta, pos)
             next == size + (byte % 128) * Pow2(7 * count)
         IN  IF byte >= 128
             THEN decode_size_from(delta, pos + 1, next, count + 1)
             ELSE [ok |-> TRUE, size |-> next, count |-> count + 1]

decode_size(delta, pos) == decode_size_from(delta, pos, 0, 0)

\* DeltaHeader::new: the source length, then the target length
DeltaHeader_new(delta) ==
    LET s == decode_size(delta, 0)
    IN  IF ~s.ok THEN [ok |-> FALSE]
        ELSE LET t == decode_size(delta, s.count)
             IN  IF ~t.ok THEN [ok |-> FALSE]
                 ELSE [ok |-> TRUE, source_len |-> s.size, target_len |-> t.size,
                       get_offset |-> s.count + t.count]

\* (mutant) the assertions compiled out
AssertEq_Off(a, b) == TRUE

\* the assertions of the patcher: assert_eq!(header.source_len, source.len())
\* in new, assert_eq!(buf.len(), target_len) in run_to_end
AssertEq(a, b) == a = b

\* a bit of a command byte
Bit(cmd, mask) == (cmd \div mask) % 2 = 1

\* (mutant) the bytes of a copy command put together without the shift
RECURSIVE ReadMasked_NoShift(_, _, _, _, _)
ReadMasked_NoShift(cmd, masks, k, rest, shift) ==
    IF k > Len(masks) THEN [ok |-> TRUE, value |-> 0, used |-> 0]
    ELSE IF Bit(cmd, masks[k])
    THEN IF rest = <<>> THEN [ok |-> FALSE, value |-> 0, used |-> 0]
         ELSE LET r == ReadMasked_NoShift(cmd, masks, k + 1, Tail(rest), shift)
              IN  [ok |-> r.ok, value |-> Head(rest) + r.value, used |-> r.used + 1]
    ELSE ReadMasked_NoShift(cmd, masks, k + 1, rest, shift)

\* the bytes a copy command reads for the masks[k..], each shifted by 8 more
\* bits than the one before: [ok, value, used], ok FALSE when read_u8().unwrap()
\* panics at the end of the delta
RECURSIVE ReadMasked(_, _, _, _, _)
ReadMasked(cmd, masks, k, rest, shift) ==
    IF k > Len(masks) THEN [ok |-> TRUE, value |-> 0, used |-> 0]
    ELSE IF Bit(cmd, masks[k])
    THEN IF rest = <<>> THEN [ok |-> FALSE, value |-> 0, used |-> 0]
         ELSE LET r == ReadMasked(cmd, masks, k + 1, Tail(rest), shift + 8)
              IN  [ok |-> r.ok, value |-> Head(rest) * Pow2(shift) + r.value,
                   used |-> r.used + 1]
    ELSE ReadMasked(cmd, masks, k + 1, rest, shift + 8)

\* the length a copy command of reconstructed length 0 stands for
CopyLengthOfZero == 65536

\* DeltaPatcher::read_command on the remaining delta: "None" at its end,
\* otherwise the DeltaOp and the delta left, or a panic
read_command(delta) ==
    IF delta = <<>> THEN [kind |-> "None"]
    ELSE LET cmd == Head(delta)
         IN  IF cmd >= 128
             THEN LET off == ReadMasked(cmd, <<1, 2, 4, 8>>, 1, Tail(delta), 0)
                      len == ReadMasked(cmd, <<16, 32, 64>>, 1,
                                        SliceFrom(Tail(delta), off.used), 0)
                  IN  IF ~off.ok \/ ~len.ok THEN [kind |-> "Panic"]
                      ELSE [kind |-> "Some",
                            op |-> [op |-> "Copy", start |-> off.value,
                                    length |-> IF len.value = 0 THEN CopyLengthOfZero
                                               ELSE len.value],
                            rest |-> SliceFrom(Tail(delta), off.used + len.used)]
             ELSE [kind |-> "Some", op |-> [op |-> "Insert", length |-> cmd],
                   rest |-> Tail(delta)]

\* DeltaPatcher::run_command: the buffer and the delta left, or a panic of a
\* slice out of range
run_command(source, delta, command, buf) ==
    IF command.op = "Copy"
    THEN IF command.start + command.length > Len(source) THEN [kind |-> "Panic"]
         ELSE [kind |-> "Ok", delta |-> delta,
               buf |-> buf \o Slice(source, command.start, command.start + command.length)]
    ELSE IF command.length > Len(delta) THEN [kind |-> "Panic"]
         ELSE [kind |-> "Ok", delta |-> SliceFrom(delta, command.length),
               buf |-> buf \o Slice(delta, 0, command.length)]

\* the loop of run_to_end from a patcher state on
RECURSIVE run_to_end(_, _, _, _)
run_to_end(source, delta, target_len, buf) ==
    LET c == read_command(delta)
    IN  IF c.kind = "None"
        THEN IF AssertEq(Len(buf), target_len) THEN [kind |-> "Ok", buf |-> buf]
             ELSE [kind |-> "Panic"]
        ELSE IF c.kind = "Panic" THEN [kind |-> "Panic"]
        ELSE LET r == run_command(source, c.rest, c.op, buf)
             IN  IF r.kind = "Panic" THEN [kind |-> "Panic"]
                 ELSE run_to_end(source, r.delta, target_len, r.buf)

\* delta::patch(source, delta)
delta_patch(source, delta) ==
    LET h == DeltaHeader_new(delta)
    IN  IF ~h.ok THEN [kind |-> "Err"]
        ELSE IF ~AssertEq(h.source_len, Len(source)) THEN [kind |-> "Panic"]
        ELSE run_to_end(source, SliceFrom(delta, h.get_offset), h.target_len, <<>>)

----------------------------------------------------------------------------
(* store/object.rs: GitObject *)

NoSha == <<>>

\* GitObjectType with its packfile type id
ObjectTypes == {"Commit", "Tree", "Blob", "Tag"}

\* GitObject::new: the hash cache starts empty
GitObject_new(object_type, content) ==
    [object_type |-> object_type, content |-> content, sha |-> NoSha]

\* usize::to_string
RECURSIVE ToDecimal(_)
ToDecimal(n) ==
    IF n < 10 THEN <<48 + n>> ELSE ToDecimal(n \div 10) \o <<48 + (n % 10)>>

\* the type name of GitObject::header: "commit", "tree", "blob", "tag"
TypeName(object_type) ==
    CASE object_type = "Commit" -> <<99, 111, 109, 109, 105, 116>>
      [] object_type = "Tree"   -> <<116, 114, 101, 101>>
      [] object_type = "Blob"   -> <<98, 108, 111, 98>>
      [] object_type = "Tag"    -> <<116, 97, 103>>

\* GitObject::header: "<type> <size>\0"
GitObject_header(obj) ==
    TypeName(obj.object_type) \o <<32>> \o ToDecimal(Len(obj.content)) \o <<0>>

\* GitObject::encode: (hex SHA-1 of header ++ content, header ++ content)
GitObject_encode(obj) ==
    LET encoded == GitObject_header(obj) \o obj.content
    IN  [hash |-> sha1_hash_hex(encoded), bytes |-> encoded]

\* GitObject::sha, the value returned: the cache when it is filled, otherwise
\* the hash of encode()
GitObject_sha(obj) ==
    IF obj.sha # NoSha THEN obj.sha ELSE GitObject_encode(obj).hash

\* GitObject::sha, the object left behind: the cache is filled
GitObject_sha_cached(obj) ==
    IF obj.sha # NoSha THEN obj ELSE [obj EXCEPT !.sha = GitObject_encode(obj).hash]

\* GitObject::patch: a new object of the same type, the cache empty; the value
\* of delta::patch is taken as the content, so a failed patch gives no object
GitObject_patch(obj, patch) ==
    LET r == delta_patch(obj.content, patch)
    IN  IF r.kind = "Ok"
        THEN [kind |-> "Ok", obj |-> GitObject_new(obj.object_type, r.buf)]
        ELSE [kind |-> r.kind]

\* str::parse::<usize>: an optional '+', then one or more decimal digits
\* (leading zeros allowed); -1 for anything else
RECURSIVE DigitsValue(_, _)
DigitsValue(text, acc) ==
    IF text = <<>> THEN acc
    ELSE DigitsValue(Tail(text), 10 * acc + (Head(text) - 48))

ParseUsize(text) ==
    LET digits == IF text # <<>> /\ Head(text) = 43 THEN Tail(text) ELSE text
    IN  IF digits = <<>> \/ \E i \in 1..Len(digits) : digits[i] < 48 \/ digits[i] > 57
        THEN -1
        ELSE DigitsValue(digits, 0)

\* the GitObjectType a header names, "" for an unknown name
TypeOfName(name) ==
    IF \E t \in ObjectTypes : TypeName(t) = name
    THEN CHOOSE t \in ObjectTypes : TypeName(t) = name
    ELSE ""

\* GitObject::parse_header: (type, size), or a panic unless the header is
\* two words separated by one space, a known type name and a number
parse_header(header) ==
    LET spaces == {i \in 1..Len(header) : header[i] = 32}
    IN  IF Cardinality(spaces) # 1 THEN [kind |-> "Panic"]
        ELSE LET at == CHOOSE i \in spaces : TRUE
                 t  == TypeOfName(SubSeq(header, 1, at - 1))
                 n  == ParseUsize(SubSeq(header, at + 1, Len(header)))
             IN  IF t = "" \/ n < 0 THEN [kind |-> "Panic"]
                 ELSE [kind |-> "Ok", object_type |-> t, size |-> n]

\* GitObject::open on the inflated bytes of the loose file named sha1: the file
\* must hash to its name, hold a NUL, a header before it and as many bytes
\* after it as the header says; the name is kept as the cached hash
GitObject_open(inflated, sha1) ==
    IF sha1_hash_hex(inflated) # sha1 THEN [kind |-> "Panic"]
    ELSE IF \A i \in 1..Len(inflated) : inflated[i] # 0 THEN [kind |-> "Panic"]
    ELSE LET split_idx == (CHOOSE i \in 1..Len(inflated) :
                             inflated[i] = 0 /\ \A j \in 1..(i - 1) : inflated[j] # 0) - 1
             header    == Slice(inflated, 0, split_idx)
         IN  IF \E i \in 1..Len(header) : header[i] >= 128 THEN [kind |-> "Panic"]
             ELSE LET h      == parse_header(header)
                      footer == SliceFrom(inflated, split_idx + 1)
                  IN  IF h.kind # "Ok" THEN [kind |-> "Panic"]
                      ELSE IF Len(footer) # h.size THEN [kind |-> "Panic"]
                      ELSE [kind |-> "Ok",
                            obj  |-> [object_type |-> h.object_type, content |-> footer,
                                      sha |-> sha1]]

----------------------------------------------------------------------------
(* packfile/index.rs: PackIndex *)

NoIndex == [none |-> TRUE]

MAGIC == <<255, 116, 79, 99>>

VERSION == 2

\* number of fanout words
FanoutLen == 256

\* the stable sort of from_objects (Vec::sort_by on the sha() strings):
\* x goes after every element that is not greater
RECURSIVE SortInsert(_, _)
SortInsert(sorted, x) ==
    IF sorted = <<>> THEN <<x>>
    ELSE IF CmpSeq(GitObject_sha(Head(sorted)[3]), GitObject_sha(x[3])) = 1
         THEN <<x>> \o sorted
         ELSE <<Head(sorted)>> \o SortInsert(Tail(sorted), x)

\* (mutant) the list left in the order given
SortBySha_Unsorted(objs) == objs

RECURSIVE SortBySha(_)
SortBySha(objs) ==
    IF objs = <<>> THEN <<>>
    ELSE SortInsert(SortBySha(SubSeq(objs, 1, Len(objs) - 1)), objs[Len(objs)])

\* (mutant) the inner loop skipping the entry of the first byte itself
FanoutBump_SkipOwn(fanout, sha) ==
    [b \in 0..(FanoutLen - 1) |-> IF b > sha[1] THEN fanout[b] + 1 ELSE fanout[b]]

\* one pass of the inner loop of from_objects: every fanout entry at or after
\* the first byte of the hash is incremented
FanoutBump(fanout, sha) ==
    [b \in 0..(FanoutLen - 1) |-> IF b >= sha[1] THEN fanout[b] + 1 ELSE fanout[b]]

\* the fanout table after the loop of from_objects over shas[1..n]
RECURSIVE FanoutLoop(_, _)
FanoutLoop(shas, n) ==
    IF n = 0 THEN [b \in 0..(FanoutLen - 1) |-> 0]
    ELSE FanoutBump(FanoutLoop(shas, n - 1), shas[n])

FanoutOf(shas) == FanoutLoop(shas, Len(shas))

\* PackIndex::from_objects (dir = None); objs are (offset, crc, GitObject)
from_objects(objs, pack_sha) ==
    LET sorted == SortBySha(objs)
        hex    == [i \in 1..Len(sorted) |-> FromHex(GitObject_sha(sorted[i][3]))]
    IN  IF \E i \in 1..Len(sorted) : ~hex[i].ok \/ Len(hex[i].bytes) # ShaLen
        THEN [kind |-> "Panic"]
        ELSE LET shas   == [i \in 1..Len(sorted) |-> hex[i].bytes]
                 fanout == FanoutOf(shas)
             IN  IF Len(sorted) # fanout[FanoutLen - 1]
                 THEN [kind |-> "Err"]
                 ELSE [kind |-> "Ok",
                       idx  |-> [fanout    |-> fanout,
                                 offsets   |-> [i \in 1..Len(sorted) |-> sorted[i][1]],
                                 shas      |-> shas,
                                 checksums |-> [i \in 1..Len(sorted) |-> sorted[i][2]],
                                 pack_sha  |-> pack_sha]]

\* the objects list as from_objects leaves it: sorted, every hash cached
from_objects_sorted(objs) ==
    LET sorted == SortBySha(objs)
    IN  [i \in 1..Len(sorted) |->
            <<sorted[i][1], sorted[i][2], GitObject_sha_cached(sorted[i][3])>>]

\* slice::binary_search_by with |s| s[..].cmp(sha): the index of a match in
\* the slice (0-based), or -1
RECURSIVE BinarySearchFrom(_, _, _, _)
BinarySearchFrom(slice, sha, base, size) ==
    IF size > 1
    THEN LET half == size \div 2
             mid  == base + half
         IN  BinarySearchFrom(slice, sha,
                 IF CmpSeq(At(slice, mid), sha) = 1 THEN base ELSE mid,
                 size - half)
    ELSE IF CmpSeq(At(slice, base), sha) = 0 THEN base ELSE -1

BinarySearch(slice, sha) ==
    IF Len(slice) = 0 THEN -1 ELSE BinarySearchFrom(slice, sha, 0, Len(slice))

\* the bounds of the slice find searches: shas[start..=end]
FindSliceEnd(idx, fan) == idx.fanout[fan] + 1

\* PackIndex::find: Some(offset), None, or a panic of the slice expression
find(idx, sha) ==
    IF Len(sha) = 0 THEN [kind |-> "Panic"]
    ELSE LET fan   == sha[1]
             start == IF fan > 0 THEN idx.fanout[fan - 1] ELSE 0
             to    == FindSliceEnd(idx, fan)
         IN  IF start > to \/ to > Len(idx.shas) THEN [kind |-> "Panic"]
             ELSE LET i == BinarySearch(Slice(idx.shas, start, to), sha)
                  IN  IF i < 0 THEN [kind |-> "None"]
                      ELSE IF i + start >= Len(idx.offsets) THEN [kind |-> "Panic"]
                      ELSE [kind |-> "Some", offset |-> At(idx.offsets, i + start)]

\* the u32 words of a table, big-endian
WriteWords(ws) == Flatten([i \in 1..Len(ws) |-> WriteU32(ws[i])])

\* n big-endian u32 words read from pos
ReadWords(s, pos, n) == [i \in 1..n |-> ReadU32(s, pos + 4 * (i - 1))]

\* (mutant) encode writing the offset table before the CRC table
PackIndex_encode_OffsetsFirst(idx) ==
    LET hex == FromHex(idx.pack_sha)
    IN  IF ~hex.ok THEN [kind |-> "Panic"]
        ELSE LET buf == MAGIC \o WriteU32(VERSION)
                        \o WriteWords([i \in 1..FanoutLen |-> idx.fanout[i - 1]])
                        \o Flatten(idx.shas)
                        \o WriteWords(idx.offsets)
                        \o WriteWords(idx.checksums)
                        \o hex.bytes
             IN  [kind |-> "Ok", bytes |-> buf \o sha1_hash(buf)]

\* PackIndex::encode
PackIndex_encode(idx) ==
    LET hex == FromHex(idx.pack_sha)
    IN  IF ~hex.ok THEN [kind |-> "Panic"]
        ELSE LET buf == MAGIC \o WriteU32(VERSION)
                        \o WriteWords([i \in 1..FanoutLen |-> idx.fanout[i - 1]])
                        \o Flatten(idx.shas)
                        \o WriteWords(idx.checksums)
                        \o WriteWords(idx.offsets)
                        \o hex.bytes
             IN  [kind |-> "Ok", bytes |-> buf \o sha1_hash(buf)]

\* the position PackIndex::parse has reached after the header and the fanout
FanoutEnd == 8 + 4 * FanoutLen

\* PackIndex::parse: the reads in order; a read past the end is Err
\* (UnexpectedEof), a failed assert_eq and the slice content[..len - 20] of
\* a short input are panics
PackIndex_parse(content) ==
    IF Len(content) < ShaLen THEN [kind |-> "Panic"]
    ELSE LET checksum == sha1_hash_hex(Slice(content, 0, Len(content) - ShaLen))
         IN
         IF Len(content) < 4 THEN [kind |-> "Err"]
         ELSE IF Slice(content, 0, 4) # MAGIC THEN [kind |-> "Panic"]
         ELSE IF Len(content) < 8 THEN [kind |-> "Err"]
         ELSE IF ReadU32(content, 4) # VERSION THEN [kind |-> "Panic"]
         ELSE IF Len(content) < FanoutEnd THEN [kind |-> "Err"]
         ELSE LET fanout == [b \in 0..(FanoutLen - 1) |-> ReadU32(content, 8 + 4 * b)]
                  size   == fanout[FanoutLen - 1]
                  shasAt == FanoutEnd
                  crcsAt == shasAt + ShaLen * size
                  offsAt == crcsAt + 4 * size
                  packAt == offsAt + 4 * size
                  selfAt == packAt + ShaLen
              IN  IF Len(content) < selfAt + ShaLen THEN [kind |-> "Err"]
                  ELSE IF ToHex(Slice(content, selfAt, selfAt + ShaLen)) # checksum
                       THEN [kind |-> "Panic"]
                  ELSE [kind |-> "Ok",
                        idx  |-> [fanout    |-> fanout,
                                  offsets   |-> ReadWords(content, offsAt, size),
                                  shas      |-> [i \in 1..size |->
                                                    Slice(content, shasAt + ShaLen * (i - 1),
                                                                   shasAt + ShaLen * i)],
                                  checksums |-> ReadWords(content, crcsAt, size),
                                  pack_sha  |-> ToHex(Slice(content, packAt, packAt + ShaLen))]]

----------------------------------------------------------------------------
(* flate2: the zlib streams of pack entries.  A stream of the model is the *)
(* byte 0x78, a length byte n and n stored bytes; like a zlib stream it ends *)
(* itself, so the number of compressed bytes is known only by inflating.    *)

ZlibMagic == 120

\* the stream that inflates to content
Deflate(content) == <<ZlibMagic, Len(content)>> \o content

\* the decompress_vec loop of read_object_content on data[pos..] with an
\* output buffer of capacity size: "StreamEnd" with the bytes and the input
\* consumed; "DataError" for bytes that are no stream; "BufError" when the
\* input ends inside the stream or the output does not fit the buffer
Inflate(data, pos, size) ==
    IF pos >= Len(data) THEN [status |-> "BufError"]
    ELSE IF At(data, pos) # ZlibMagic THEN [status |-> "DataError"]
    ELSE IF pos + 1 >= Len(data) THEN [status |-> "BufError"]
    ELSE LET n == At(data, pos + 1)
         IN  IF pos + 2 + n > Len(data) \/ n > size THEN [status |-> "BufError"]
             ELSE [status |-> "StreamEnd", out |-> Slice(data, pos + 2, pos + 2 + n),
                   consumed |-> n + 2]

----------------------------------------------------------------------------
(* packfile/mod.rs: PackObject *)

Base(obj) == [t |-> "Base", obj |-> obj]

OfsDelta(offset, data) == [t |-> "OfsDelta", offset |-> offset, data |-> data]

RefDelta(base, data) == [t |-> "RefDelta", base |-> base, data |-> data]

\* PackObject::crc32: the CRC of the object's content or of the delta's bytes,
\* as inflated
PackObject_crc32(o) ==
    checksum_ieee(IF o.t = "Base" THEN o.obj.content ELSE o.data)

\* GitObjectType::from_u8 and the match of read_object
TypeOfId(type_id) ==
    CASE type_id = 1 -> "Commit"
      [] type_id = 2 -> "Tree"
      [] type_id = 3 -> "Blob"
      [] type_id = 4 -> "Tag"

----------------------------------------------------------------------------
(* packfile/packfile_parser.rs: PackFileParser *)

MAGIC_HEADER == <<80, 65, 67, 75>>

GIT_VERSION == 2

HEADER_LENGTH == 12

\* the loop that reads the rest of the size of an entry header, from the byte
\* c just read: [ok, size, pos], ok FALSE when read_u8 meets the end
RECURSIVE SizeLoop(_, _, _, _, _)
SizeLoop(data, c, pos, size, shift) ==
    IF c < 128 THEN [ok |-> TRUE, size |-> size, pos |-> pos]
    ELSE IF pos >= Len(data) THEN [ok |-> FALSE]
    ELSE LET d == At(data, pos)
         IN  SizeLoop(data, d, pos + 1, size + (d % 128) * Pow2(shift), shift + 7)

\* (mutant) the loop of read_offset without the 1 added before the shift
RECURSIVE OffsetLoop_NoBias(_, _, _, _, _)
OffsetLoop_NoBias(data, c, pos, offset, consumed) ==
    IF c < 128 THEN [ok |-> TRUE, offset |-> offset, consumed |-> consumed]
    ELSE IF pos >= Len(data) THEN [ok |-> FALSE]
    ELSE LET d == At(data, pos)
         IN  OffsetLoop_NoBias(data, d, pos + 1, offset * 128 + (d % 128), consumed + 1)

\* PackFileParser::read_offset: the negative offset of an OfsDelta read from
\* pos: [ok, offset, consumed]
RECURSIVE OffsetLoop(_, _, _, _, _)
OffsetLoop(data, c, pos, offset, consumed) ==
    IF c < 128 THEN [ok |-> TRUE, offset |-> offset, consumed |-> consumed]
    ELSE IF pos >= Len(data) THEN [ok |-> FALSE]
    ELSE LET d == At(data, pos)
         IN  OffsetLoop(data, d, pos + 1, (offset + 1) * 128 + (d % 128), consumed + 1)

read_offset(data, pos) ==
    IF pos >= Len(data) THEN [ok |-> FALSE]
    ELSE OffsetLoop(data, At(data, pos), pos + 1, At(data, pos) % 128, 1)

\* ObjectReader::read_offset on a reader that stands at pos: every read_u8
\* moves the reader on by one byte; [ok, offset, pos] with the position after
RECURSIVE ReaderOffsetLoop(_, _, _, _)
ReaderOffsetLoop(data, c, pos, offset) ==
    IF c < 128 THEN [ok |-> TRUE, offset |-> offset, pos |-> pos]
    ELSE IF pos >= Len(data) THEN [ok |-> FALSE]
    ELSE LET d      == At(data, pos)
             bumped == offset + 1
             moved  == bumped * 128
         IN  ReaderOffsetLoop(data, d, pos + 1, moved + (d % 128))

reader_read_offset(data, pos) ==
    IF pos >= Len(data) THEN [ok |-> FALSE]
    ELSE LET r == ReaderOffsetLoop(data, At(data, pos), pos + 1, At(data, pos) % 128)
         IN  IF ~r.ok THEN [ok |-> FALSE]
             ELSE [ok |-> TRUE, offset |-> r.offset, consumed |-> r.pos - pos]

\* PackFileParser::read_object_content: Err unless the stream ends with
\* exactly size bytes inflated
read_object_content(data, offset, size) ==
    LET z == Inflate(data, offset, size)
    IN  IF z.status # "StreamEnd" THEN [kind |-> "Err"]
        ELSE IF Len(z.out) # size THEN [kind |-> "Err"]
        ELSE [kind |-> "Ok", content |-> z.out, consumed |-> z.consumed]

\* PackFileParser::parse_object_content
parse_object_content(data, type_id, pos, size) ==
    IF type_id \in 1..4
    THEN LET c == read_object_content(data, pos, size)
         IN  IF c.kind # "Ok" THEN [kind |-> "Err"]
             ELSE [kind |-> "Ok", consumed |-> c.consumed,
                   obj |-> Base(GitObject_new(TypeOfId(type_id), c.content))]
    ELSE IF type_id = 6
    THEN LET r == read_offset(data, pos)
         IN  IF ~r.ok THEN [kind |-> "Err"]
             ELSE LET c == read_object_content(data, pos + r.consumed, size)
                  IN  IF c.kind # "Ok" THEN [kind |-> "Err"]
                      ELSE [kind |-> "Ok", consumed |-> r.consumed + c.consumed,
                            obj |-> OfsDelta(r.offset, c.content)]
    ELSE IF type_id = 7
    THEN IF pos + ShaLen > Len(data) THEN [kind |-> "Err"]
         ELSE LET c == read_object_content(data, pos + ShaLen, size)
              IN  IF c.kind # "Ok" THEN [kind |-> "Err"]
                  ELSE [kind |-> "Ok", consumed |-> c.consumed + ShaLen,
                        obj |-> RefDelta(Slice(data, pos, pos + ShaLen), c.content)]
    ELSE [kind |-> "Err"]

\* PackFileParser::from_contents
from_contents(contents) ==
    [packfile_data |-> contents, lines |-> 0, size |-> Len(contents), version |-> 0,
     entries |-> 0, state |-> [name |-> "Init"],
     checksum |-> [i \in 1..ShaLen |-> 0], objects |-> <<>>]

\* (mutant) Init without the version test
process_Init_AnyVersion(p) ==
    IF Len(p.packfile_data) < HEADER_LENGTH THEN [kind |-> "Panic", p |-> p]
    ELSE IF Slice(p.packfile_data, 0, 4) # MAGIC_HEADER THEN [kind |-> "Err", p |-> p]
    ELSE [kind |-> "Ok",
          p |-> [p EXCEPT !.version = ReadU32(p.packfile_data, 4),
                          !.entries = ReadU32(p.packfile_data, 8),
                          !.state = [name |-> "ParseEntryHeader",
                                     offset |-> HEADER_LENGTH]]]

\* process_line in state Init: the 12-byte header
process_Init(p) ==
    IF Len(p.packfile_data) < HEADER_LENGTH THEN [kind |-> "Panic", p |-> p]
    ELSE IF Slice(p.packfile_data, 0, 4) # MAGIC_HEADER THEN [kind |-> "Err", p |-> p]
    ELSE LET v == [p EXCEPT !.version = ReadU32(p.packfile_data, 4)]
         IN  IF v.version # GIT_VERSION THEN [kind |-> "Err", p |-> v]
             ELSE [kind |-> "Ok",
                   p |-> [v EXCEPT !.entries = ReadU32(p.packfile_data, 8),
                                   !.state = [name |-> "ParseEntryHeader",
                                              offset |-> HEADER_LENGTH]]]

\* process_line in state ParseEntryHeader(offset): type and size
process_EntryHeader(p) ==
    LET offset == p.state.offset
        data   == p.packfile_data
    IN  IF offset >= Len(data) THEN [kind |-> "Err", p |-> p]
        ELSE LET c       == At(data, offset)
                 type_id == (c \div 16) % 8
                 h       == SizeLoop(data, c, offset + 1, c % 16, 4)
             IN  IF ~h.ok THEN [kind |-> "Err", p |-> p]
                 ELSE IF type_id = 0 \/ type_id = 5 THEN [kind |-> "Panic", p |-> p]
                 ELSE [kind |-> "Ok",
                       p |-> [p EXCEPT !.state = [name |-> "ParseEntryBody",
                                                  type_id |-> type_id, offset |-> offset,
                                                  pos |-> h.pos, size |-> h.size]]]

\* the state after the body of an entry that ends at position to
AfterBody(entries, count, to) ==
    IF entries = count THEN [name |-> "ParseCheckSum", pos |-> to]
    ELSE [name |-> "ParseEntryHeader", offset |-> to]

\* process_line in state ParseEntryBody(type_id, offset, pos, size); nothing
\* happens while the parser holds no byte after pos
process_EntryBody(p) ==
    LET st == p.state
    IN  IF p.size > st.pos
        THEN LET r == parse_object_content(p.packfile_data, st.type_id, st.pos, st.size)
             IN  IF r.kind # "Ok" THEN [kind |-> "Err", p |-> p]
                 ELSE LET objs == Append(p.objects,
                                         <<st.offset, PackObject_crc32(r.obj), r.obj>>)
                      IN  [kind |-> "Ok",
                           p |-> [p EXCEPT !.objects = objs,
                                           !.state = AfterBody(p.entries, Len(objs),
                                                               st.pos + r.consumed)]]
        ELSE [kind |-> "Ok", p |-> p]

\* process_line in state ParseCheckSum(pos): the trailer
process_CheckSum(p) ==
    LET pos == p.state.pos
    IN  IF pos + ShaLen > Len(p.packfile_data) THEN [kind |-> "Err", p |-> p]
        ELSE [kind |-> "Ok",
              p |-> [p EXCEPT !.checksum = Slice(p.packfile_data, pos, pos + ShaLen),
                              !.state = [name |-> "End"]]]

\* PackFileParser::process_line
process_line(p) ==
    CASE p.state.name = "Init"             -> process_Init(p)
      [] p.state.name = "ParseEntryHeader" -> process_EntryHeader(p)
      [] p.state.name = "ParseEntryBody"   -> process_EntryBody(p)
      [] p.state.name = "ParseCheckSum"    -> process_CheckSum(p)
      [] OTHER                             -> [kind |-> "Ok", p |-> p]

\* PackFileParser::eof
eof(p) == p.state.name = "End"

\* PackFileParser::new: no data yet
PackFileParser_new == from_contents(<<>>)

\* PackFileParser::add_line on a packet line, its first byte the channel:
\* 1 appends the rest to the data, counts the whole line into size and calls
\* process_line once; 2 and 3 print the rest; any other channel is an error
add_line(p, line) ==
    CASE line[1] = 1 ->
            process_line([p EXCEPT !.lines = @ + 1,
                                   !.packfile_data = @ \o Tail(line),
                                   !.size = @ + Len(line)])
      [] line[1] = 2 -> [kind |-> "Ok", p |-> p]
      [] line[1] = 3 -> [kind |-> "Ok", p |-> p]
      [] OTHER       -> [kind |-> "Err", p |-> p]

\* PackFileParser::process_pending_lines (slurp): process_line until eof or
\* an error; "Loop" when a call returns Ok and leaves the parser as it was,
\* so that the loop does not end
RECURSIVE process_pending_lines(_)
process_pending_lines(p) ==
    IF eof(p) THEN [kind |-> "Ok", p |-> p]
    ELSE LET r == process_line(p)
         IN  IF r.kind # "Ok" THEN r
             ELSE IF r.p = p THEN [kind |-> "Loop", p |-> p]
             ELSE process_pending_lines(r.p)

\* the entries parse hands to from_objects: the filter_map keeps the Base
\* entries, each with its offset and crc
RECURSIVE BaseObjects(_)
BaseObjects(objs) ==
    IF objs = <<>> THEN <<>>
    ELSE LET o == Head(objs)
         IN  IF o[3].t = "Base"
             THEN << <<o[1], o[2], o[3].obj>> >> \o BaseObjects(Tail(objs))
             ELSE BaseObjects(Tail(objs))

\* the hash parse names the pack by: sha1_hash_hex of the checksum field
PackShaOf(checksum) == sha1_hash_hex(checksum)

\* PackFileParser::parse(None, index_opt): the PackFile; the index is the one
\* given, or else the one from_objects builds
PackFileParser_parse(p, index_opt) ==
    LET sha_computed == PackShaOf(p.checksum)
        built        == from_objects(BaseObjects(p.objects), sha_computed)
    IN  IF Len(p.packfile_data) < HEADER_LENGTH + ShaLen THEN [kind |-> "Panic"]
        ELSE IF index_opt = NoIndex /\ built.kind # "Ok" THEN [kind |-> built.kind]
        ELSE [kind |-> "Ok",
              pack |-> [version         |-> p.version,
                        num_objects     |-> p.entries,
                        encoded_objects |-> Slice(p.packfile_data, HEADER_LENGTH,
                                                  Len(p.packfile_data) - ShaLen),
                        hexsha          |-> sha_computed,
                        index           |-> IF index_opt = NoIndex THEN built.idx
                                            ELSE index_opt]]

----------------------------------------------------------------------------
(* packfile/mod.rs: PackFile and ObjectReader *)

NoPack == [none |-> TRUE]

\* PackFile::encode
PackFile_encode(pack) ==
    LET encoded == MAGIC_HEADER \o WriteU32(pack.version) \o WriteU32(pack.num_objects)
                   \o pack.encoded_objects
    IN  encoded \o sha1_hash(encoded)

\* ObjectReader::read_object_content: as the parser's, but every failure is a
\* panic
reader_read_object_content(data, pos, size) ==
    LET z == Inflate(data, pos, size)
    IN  IF z.status # "StreamEnd" THEN [kind |-> "Panic"]
        ELSE IF Len(z.out) # size THEN [kind |-> "Panic"]
        ELSE [kind |-> "Ok", content |-> z.out]

\* ObjectReader::read_object on contents: one entry decoded from its start
read_object(contents) ==
    IF contents = <<>> THEN [kind |-> "Err"]
    ELSE LET c       == At(contents, 0)
             type_id == (c \div 16) % 8
             h       == SizeLoop(contents, c, 1, c % 16, 4)
         IN  IF ~h.ok THEN [kind |-> "Err"]
             ELSE IF type_id \in 1..4
             THEN LET r == reader_read_object_content(contents, h.pos, h.size)
                  IN  IF r.kind # "Ok" THEN [kind |-> "Panic"]
                      ELSE [kind |-> "Ok",
                            obj |-> Base(GitObject_new(TypeOfId(type_id), r.content))]
             ELSE IF type_id = 6
             THEN LET o == reader_read_offset(contents, h.pos)
                  IN  IF ~o.ok THEN [kind |-> "Err"]
                      ELSE LET r == reader_read_object_content(contents,
                                        h.pos + o.consumed, h.size)
                           IN  IF r.kind # "Ok" THEN [kind |-> "Panic"]
                               ELSE [kind |-> "Ok", obj |-> OfsDelta(o.offset, r.content)]
             ELSE IF type_id = 7
             THEN IF h.pos + ShaLen > Len(contents) THEN [kind |-> "Err"]
                  ELSE LET r == reader_read_object_content(contents, h.pos + ShaLen,
                                                           h.size)
                       IN  IF r.kind # "Ok" THEN [kind |-> "Panic"]
                           ELSE [kind |-> "Ok",
                                 obj |-> RefDelta(Slice(contents, h.pos, h.pos + ShaLen),
                                                  r.content)]
             ELSE [kind |-> "Panic"]

\* (mutant) read_at_offset with a reader on all the entries, not on those
\* from the offset on
read_at_offset_FromStart(pack, offset) ==
    IF offset < HEADER_LENGTH \/ offset - HEADER_LENGTH > Len(pack.encoded_objects)
    THEN [kind |-> "Panic"]
    ELSE read_object(pack.encoded_objects)

\* PackFile::read_at_offset: the subtraction and the slice panic on an offset
\* outside the entries
read_at_offset(pack, offset) ==
    IF offset < HEADER_LENGTH \/ offset - HEADER_LENGTH > Len(pack.encoded_objects)
    THEN [kind |-> "Panic"]
    ELSE read_object(SliceFrom(pack.encoded_objects, offset - HEADER_LENGTH))

\* PackFile::find_by_sha_unresolved on the 20 bytes of a RefDelta
find_by_sha_unresolved(pack, sha) ==
    LET off == find(pack.index, FromHex(ToHex(sha)).bytes)
    IN  IF off.kind = "Panic" THEN [kind |-> "Panic"]
        ELSE IF off.kind = "None" THEN [kind |-> "None"]
        ELSE read_at_offset(pack, off.offset)

\* the second loop of find_by_offset: the patches are popped off the end and
\* applied in turn; patch(..).unwrap() and the patcher's assertions panic
RECURSIVE ApplyPatches(_, _)
ApplyPatches(obj, patches) ==
    IF patches = <<>> THEN [kind |-> "Ok", obj |-> obj]
    ELSE LET r == GitObject_patch(obj, patches[Len(patches)])
         IN  IF r.kind # "Ok" THEN [kind |-> "Panic"]
             ELSE ApplyPatches(r.obj, SubSeq(patches, 1, Len(patches) - 1))

\* the offset find_by_offset reads next after an OfsDelta: the current value
\* of its offset variable less the delta's offset
NextOffset(offset, delta_offset) == offset - delta_offset

\* the first loop of find_by_offset from the entry object on: offset is the
\* local variable; fuel bounds the walk of the model
RECURSIVE WalkChain(_, _, _, _, _)
WalkChain(pack, object, offset, patches, fuel) ==
    IF object.t = "Base" THEN ApplyPatches(object.obj, patches)
    ELSE IF fuel = 0 THEN [kind |-> "Loop"]
    ELSE IF object.t = "OfsDelta"
    THEN LET to == NextOffset(offset, object.offset)
             n  == IF to < 0 THEN [kind |-> "Panic"] ELSE read_at_offset(pack, to)
         IN  IF n.kind # "Ok" THEN [kind |-> n.kind]
             ELSE WalkChain(pack, n.obj, to, Append(patches, object.data), fuel - 1)
    ELSE LET n == find_by_sha_unresolved(pack, object.base)
         IN  IF n.kind # "Ok" THEN [kind |-> n.kind]
             ELSE WalkChain(pack, n.obj, offset, Append(patches, object.data), fuel - 1)

\* PackFile::find_by_offset: "Ok" with the object, "None", "Err", a panic,
\* or "Loop" for a walk that does not end
find_by_offset(pack, offset) ==
    LET first == read_at_offset(pack, offset)
    IN  IF first.kind # "Ok" THEN [kind |-> first.kind]
        ELSE WalkChain(pack, first.obj, offset, <<>>, MaxWalk)

\* PackFile::find_by_sha on a hex string
find_by_sha(pack, sha) ==
    LET hex == FromHex(sha)
    IN  IF ~hex.ok THEN [kind |-> "None"]
        ELSE LET off == find(pack.index, hex.bytes)
             IN  IF off.kind = "Panic" THEN [kind |-> "Panic"]
                 ELSE IF off.kind = "None" THEN [kind |-> "None"]
                 ELSE find_by_offset(pack, off.offset)

----------------------------------------------------------------------------
(* Each specification below drives one component; the variables of the    *)
(* others stay as they are here.                                           *)

\* no patch is running
DeltaIdle ==
    /\ dsource = <<>>
    /\ ddelta = <<>>
    /\ patcher = [pc |-> "idle"]

\* no index is held
IdxIdle ==
    /\ objects = <<>>
    /\ index = NoIndex
    /\ idxbytes = <<>>
    /\ idxorigin = "none"
    /\ idxop = [op |-> "none"]

\* an empty slot
NoObject == [none |-> TRUE]

\* the two GitObject values followed: one made by new, open or patch, and
\* its clone
Slots == {"made", "clone"}

\* no object is alive
ObjIdle ==
    /\ gobjs = [k \in Slots |-> NoObject]
    /\ gcall = [op |-> "none"]

\* no pack is read
PackIdle ==
    /\ pspec = <<>>
    /\ pbytes = <<>>
    /\ pidx = NoIndex
    /\ parser = from_contents(<<>>)
    /\ pstatus = "idle"
    /\ packfile = NoPack
    /\ pcall = [op |-> "none"]

\* no fetch is under way
StreamIdle ==
    /\ sbytes = <<>>
    /\ sfeed = <<>>
    /\ snext = 0
    /\ sparser = PackFileParser_new
    /\ sstatus = "idle"

\* no URL is being parsed
UrlIdle ==
    /\ uurl = <<>>
    /\ udir = [some |-> FALSE]
    /\ ucall = [kind |-> "none"]

\* no negotiation request is being written
NoRequest == [kind |-> "none"]

ReqIdle ==
    /\ qcaps = <<>>
    /\ qrefs = <<>>
    /\ qi = 0
    /\ qids = {}
    /\ qlines = <<>>
    /\ qout = NoRequest

\* no back-offset is being decoded
OfsIdle ==
    /\ obytes = <<>>
    /\ ocall = [op |-> "none"]

OtherIdle == UrlIdle /\ ReqIdle /\ OfsIdle

----------------------------------------------------------------------------
(* The delta engine: inputs and steps of delta::patch *)

\* sources patched
DeltaSources == { <<>>, <<7, 9>> }

\* encodings of the two header lengths: 0, 2 and 3 in one byte, 2 in two bytes
HeaderEncodings == { <<0>>, <<2>>, <<3>>, <<130, 0>> }

\* bytes of the operation stream: inserts of 0, 1 and 2 bytes, a copy with a
\* length byte (0x90) and a copy with an offset byte and a length byte (0x91)
CmdBytes == {0, 1, 2, 144, 145}

CmdStreams == UNION { [1..n -> CmdBytes] : n \in 0..MaxCmdBytes }

\* a delta with both header lengths, and two whose header is cut short
DeltaInputs ==
    { hs \o ht \o cs : hs \in HeaderEncodings, ht \in HeaderEncodings, cs \in CmdStreams }
    \cup { <<>>, <<2, 130>> }

\* a source of 257 bytes and deltas for it (source length 257 is 0x81 0x02):
\* copies whose offset or length has a second byte
LongSource == [i \in 1..257 |-> (3 * i) % 256]

LongDeltas ==
    { <<129, 2, 1, 146, 1, 1>>,            \* 0x92: offset 256, length 1
      <<129, 2, 1, 147, 255, 0, 1>>,       \* 0x93: offset 255, length 1
      <<129, 2, 128, 2, 160, 1>>,          \* 0xa0: offset 0, length 256
      <<129, 2, 129, 2, 176, 1, 1>>,       \* 0xb0: offset 0, length 257
      <<129, 2, 2, 147, 0, 1, 2>>,         \* 0x93: offset 256, length 2
      <<129, 2, 2, 1, 5, 147, 0, 1, 1>>,   \* an insert, then offset 256, length 1
      <<129, 2, 0, 144, 0>> }              \* 0x90: length 0

\* a source of 0x10000 bytes and deltas for it (the length is 0x80 0x80 0x04):
\* the copy whose length bytes make 0
WholeSource == [i \in 1..65536 |-> i % 251]

WholeDeltas ==
    { <<128, 128, 4, 128, 128, 4, 144, 0>>,   \* 0x90 0x00
      <<128, 128, 4, 128, 128, 4, 128>>,      \* 0x80
      <<128, 128, 4, 128, 128, 4, 176, 0, 0>> }

DeltaInit ==
    /\ \/ dsource \in DeltaSources /\ ddelta \in DeltaInputs
       \/ dsource = LongSource /\ ddelta \in LongDeltas
       \/ dsource = WholeSource /\ ddelta \in WholeDeltas
    /\ patcher = [pc |-> "new"]
    /\ IdxIdle
    /\ ObjIdle
    /\ PackIdle
    /\ StreamIdle
    /\ OtherIdle

\* the call has returned or panicked
DeltaDone(kind, buf, ops) ==
    [pc |-> "done", kind |-> kind, buf |-> buf, ops |-> ops]

\* DeltaPatcher::new(source, delta)
DeltaNew ==
    /\ patcher.pc = "new"
    /\ LET h == DeltaHeader_new(ddelta)
       IN  patcher' =
              IF ~h.ok THEN DeltaDone("Err", <<>>, <<>>)
              ELSE IF ~AssertEq(h.source_len, Len(dsource)) THEN DeltaDone("Panic", <<>>, <<>>)
              ELSE [pc |-> "run", delta |-> SliceFrom(ddelta, h.get_offset),
                    target_len |-> h.target_len, buf |-> <<>>, ops |-> <<>>]
    /\ UNCHANGED <<dsource, ddelta>>

\* one turn of the loop of run_to_end: read_command, then run_command
DeltaCommand ==
    /\ patcher.pc = "run"
    /\ LET c == read_command(patcher.delta)
       IN  /\ c.kind # "None"
           /\ patcher' =
                 IF c.kind = "Panic" THEN DeltaDone("Panic", patcher.buf, patcher.ops)
                 ELSE LET r == run_command(dsource, c.rest, c.op, patcher.buf)
                      IN  IF r.kind = "Panic"
                          THEN DeltaDone("Panic", patcher.buf, Append(patcher.ops, c.op))
                          ELSE [patcher EXCEPT !.delta = r.delta, !.buf = r.buf,
                                               !.ops = Append(patcher.ops, c.op)]
    /\ UNCHANGED <<dsource, ddelta>>

\* the end of run_to_end: the delta is exhausted
DeltaFinish ==
    /\ patcher.pc = "run"
    /\ read_command(patcher.delta).kind = "None"
    /\ patcher' =
          IF AssertEq(Len(patcher.buf), patcher.target_len)
          THEN DeltaDone("Ok", patcher.buf, patcher.ops)
          ELSE DeltaDone("Panic", patcher.buf, patcher.ops)
    /\ UNCHANGED <<dsource, ddelta>>

DeltaNext ==
    \/ DeltaNew /\ UNCHANGED <<idxVars, objVars, packVars, streamVars, otherVars>>
    \/ DeltaCommand /\ UNCHANGED <<idxVars, objVars, packVars, streamVars, otherVars>>
    \/ DeltaFinish /\ UNCHANGED <<idxVars, objVars, packVars, streamVars, otherVars>>

SpecDelta == DeltaInit /\ [][DeltaNext]_vars

----------------------------------------------------------------------------
(* Claims about the delta engine *)

\* the length a header varint states, read from the 0-based position pos of
\* the delta: 7 bits per byte, least significant group first
RECURSIVE VarintAt(_, _)
VarintAt(d, pos) ==
    IF At(d, pos) < 128 THEN At(d, pos)
    ELSE (At(d, pos) - 128) + 128 * VarintAt(d, pos + 1)

RECURSIVE VarintLen(_, _)
VarintLen(d, pos) == IF At(d, pos) < 128 THEN 1 ELSE 1 + VarintLen(d, pos + 1)

\* C8: when delta::patch(s, d) returns a result r, |r| is the target length
\* of d's header and the source length of d's header is |s|.
C8_CleanTerminationLengths ==
    (patcher.pc = "done" /\ patcher.kind = "Ok") =>
        /\ VarintAt(ddelta, 0) = Len(dsource)
        /\ Len(patcher.buf) = VarintAt(ddelta, VarintLen(ddelta, 0))

\* a patch of a non-empty source returned a non-empty result made by a copy
\* and an insert
C8_Witness ==
    /\ patcher.pc = "done"
    /\ patcher.kind = "Ok"
    /\ Len(dsource) = 2
    /\ Len(patcher.buf) = 3
    /\ \E i \in 1..Len(patcher.ops) : patcher.ops[i].op = "Copy"
    /\ \E i \in 1..Len(patcher.ops) : patcher.ops[i].op = "Insert"

\* C9: once a command byte 0x00 has been read from the operation stream, the
\* patch has stopped with an error value: the byte is not run as an insert
\* of no bytes, and there is no panic.
C9_ZeroCommandRejected ==
    (patcher.pc \in {"run", "done"}
        /\ \E i \in 1..Len(patcher.ops) :
              patcher.ops[i].op = "Insert" /\ patcher.ops[i].length = 0) =>
        (patcher.pc = "done" /\ patcher.kind = "Err")

\* a header varint starts at the 0-based position pos of d and ends in d
HasVarint(d, pos) == \E k \in pos..(Len(d) - 1) : At(d, k) < 128

\* the byte a copy command at the 0-based position pos of d carries for bit m
\* of the command byte: the bytes follow the command in the order of their
\* bits, and an absent byte is zero
CopyByte(d, pos, m) ==
    LET cmd  == At(d, pos)
        rank == Cardinality({ j \in 0..m : Bit(cmd, Pow2(j)) })
    IN  IF ~Bit(cmd, Pow2(m)) THEN 0
        ELSE IF pos + rank >= Len(d) THEN -1
        ELSE At(d, pos + rank)

\* the reference interpretation of the command stream of d from the 0-based
\* position pos on, on the source s: [ok, out], ok FALSE for a stream that is
\* not well formed (a command 0x00, bytes that are missing, a copy outside s)
RECURSIVE Interpret(_, _, _)
Interpret(s, d, pos) ==
    IF pos >= Len(d) THEN [ok |-> TRUE, out |-> <<>>]
    ELSE LET cmd == At(d, pos)
         IN  IF cmd < 128
             THEN IF cmd = 0 \/ pos + 1 + cmd > Len(d) THEN [ok |-> FALSE, out |-> <<>>]
                  ELSE LET r == Interpret(s, d, pos + 1 + cmd)
                       IN  [ok |-> r.ok, out |-> SubSeq(d, pos + 2, pos + 1 + cmd) \o r.out]
             ELSE LET b      == [m \in 0..6 |-> CopyByte(d, pos, m)]
                      n      == Cardinality({ m \in 0..6 : Bit(cmd, Pow2(m)) })
                      offset == b[0] + 256 * b[1] + 65536 * b[2] + 16777216 * b[3]
                      len    == b[4] + 256 * b[5] + 65536 * b[6]
                      length == IF len = 0 THEN 65536 ELSE len
                  IN  IF (\E m \in 0..6 : b[m] < 0) \/ offset + length > Len(s)
                      THEN [ok |-> FALSE, out |-> <<>>]
                      ELSE LET r == Interpret(s, d, pos + 1 + n)
                           IN  [ok |-> r.ok,
                                out |-> SubSeq(s, offset + 1, offset + length) \o r.out]

\* d is a well-formed delta for s: its header holds the length of s and the
\* length of what its command stream builds
WellFormedDelta(s, d) ==
    /\ HasVarint(d, 0)
    /\ HasVarint(d, VarintLen(d, 0))
    /\ VarintAt(d, 0) = Len(s)
    /\ LET start == VarintLen(d, 0) + VarintLen(d, VarintLen(d, 0))
           r     == Interpret(s, d, start)
       IN  r.ok /\ Len(r.out) = VarintAt(d, VarintLen(d, 0))

\* C24: for a well-formed delta d, delta::patch(s, d) returns the reference
\* interpretation of d's command stream: an insert appends the next cmd
\* (1..127) bytes of d, a copy appends s[offset .. offset+length] with offset
\* and length put together little-endian from the bytes that the bits of the
\* command select, a length of 0 standing for 0x10000; and a patch that
\* returns without having read a command 0x00 returns that interpretation.
C24_PatchIsInterpretation ==
    patcher.pc = "done" =>
        /\ WellFormedDelta(dsource, ddelta) =>
              /\ patcher.kind = "Ok"
              /\ LET start == VarintLen(ddelta, 0) + VarintLen(ddelta, VarintLen(ddelta, 0))
                 IN  patcher.buf = Interpret(dsource, ddelta, start).out
        /\ (/\ patcher.kind = "Ok"
            /\ \A i \in 1..Len(patcher.ops) :
                  ~(patcher.ops[i].op = "Insert" /\ patcher.ops[i].length = 0)) =>
              WellFormedDelta(dsource, ddelta)

\* the well-formed delta of one copy command with the length bytes 0 has
\* been patched: the result is the 0x10000 bytes of the source
C24_Witness ==
    /\ patcher.pc = "done"
    /\ patcher.kind = "Ok"
    /\ WellFormedDelta(dsource, ddelta)
    /\ patcher.ops = <<[op |-> "Copy", start |-> 0, length |-> 65536]>>
    /\ Len(patcher.buf) = 65536
    /\ patcher.buf = dsource

----------------------------------------------------------------------------
(* The pack index: inputs and operations *)

\* Blob contents whose hashes start with the bytes 255, 0, 1 and 128
IdxContents == << <<15>>, <<16>>, <<17>>, <<144>> >>

\* the (offset, crc, GitObject) triple of the k-th content
IdxTriple(k) ==
    << 12 + 300 * k, checksum_ieee(IdxContents[k]), GitObject_new("Blob", IdxContents[k]) >>

\* the index sequences of at most MaxObjs distinct contents, in every order,
\* and those of one content twice
IdxPicks ==
    UNION { { f \in [1..m -> 1..Len(IdxContents)] :
                \A i, j \in 1..m : i # j => f[i] # f[j] } : m \in 0..MaxObjs }
    \cup { <<k, k>> : k \in 1..Len(IdxContents) }

\* the lists from_objects is called on
IdxObjectLists == { [i \in 1..Len(ks) |-> IdxTriple(ks[i])] : ks \in IdxPicks }

\* the hash bytes of a triple's object
TripleSha(t) == FromHex(GitObject_sha(t[3])).bytes

\* the pack hash the indexes of the model carry
IdxPackSha == [i \in 1..ShaLen |-> (7 * i) % 256]

\* a 32-bit word as git writes it on disk: most significant byte first
DiskWord(n) ==
    [i \in 1..4 |-> (n \div (256 ^ (4 - i))) % 256]

\* an index file as git writes it (spec 4.4, "Encoding an index"): magic,
\* version, cumulative fanout, the hashes ascending, CRCs, offsets, pack
\* SHA-1, and the SHA-1 of everything before
IdxFileWith(ts, pack_sha) ==
    LET n    == Len(ts)
        body == <<255, 116, 79, 99, 0, 0, 0, 2>>
                \o Flatten([b \in 1..FanoutLen |->
                     DiskWord(Cardinality({i \in 1..n : TripleSha(ts[i])[1] <= b - 1}))])
                \o Flatten([i \in 1..n |-> TripleSha(ts[i])])
                \o Flatten([i \in 1..n |-> DiskWord(ts[i][2])])
                \o Flatten([i \in 1..n |-> DiskWord(ts[i][1])])
                \o pack_sha
    IN  body \o sha1_hash(body)

IdxFileOf(ts) == IdxFileWith(ts, IdxPackSha)

\* the index files PackIndex::parse is called on: one per list of triples
\* that is in ascending hash order
IdxFiles ==
    { IdxFileOf(ts) : ts \in { l \in IdxObjectLists :
          \A i \in 1..(Len(l) - 1) : CmpSeq(TripleSha(l[i]), TripleSha(l[i + 1])) = -1 } }

\* hashes looked up: those of the contents, and for the first bytes 0, 1, 7,
\* 128 and 255 one hash that no object has; the last is 17 bytes long, as in
\* tests::finding_an_offset
Probe(b, n) == [i \in 1..n |-> IF i = 1 THEN b ELSE 171]

FindProbes ==
    { TripleSha(IdxTriple(k)) : k \in 1..Len(IdxContents) }
    \cup { Probe(b, ShaLen) : b \in {0, 1, 7, 128, 255} }
    \cup { Probe(171, 17) }

\* an index file with byte i of its body replaced by b and the trailing
\* SHA-1 computed again
IdxFileWithByte(f, i, b) ==
    LET body == [Slice(f, 0, Len(f) - ShaLen) EXCEPT ![i] = b]
    IN  body \o sha1_hash(body)

\* damaged index files: the last byte of the trailing SHA-1 changed; another
\* magic; version 3; and the file cut off inside the magic, below the length
\* of a SHA-1, at that length, inside the fanout and one byte before its end
IdxBadFiles ==
    UNION { { [f EXCEPT ![Len(f)] = (@ + 1) % 256],
              IdxFileWithByte(f, 1, 0),
              IdxFileWithByte(f, 8, 3) }
            \cup { Slice(f, 0, n) : n \in {3, ShaLen - 1, ShaLen, 600, Len(f) - 1} }
          : f \in IdxFiles }

IdxInit ==
    /\ \/ objects \in IdxObjectLists /\ idxbytes = <<>>
       \/ objects = <<>> /\ idxbytes \in IdxFiles \cup IdxBadFiles
    /\ index = NoIndex
    /\ idxorigin = "none"
    /\ idxop = [op |-> "none"]
    /\ DeltaIdle
    /\ ObjIdle
    /\ PackIdle
    /\ StreamIdle
    /\ OtherIdle

\* PackIndex::from_objects(&mut objects, pack_sha, None)
IdxFromObjects ==
    /\ index = NoIndex
    /\ idxbytes = <<>>
    /\ LET r == from_objects(objects, ToHex(IdxPackSha))
       IN  /\ idxop' = [op |-> "from_objects", kind |-> r.kind, input |-> objects]
           /\ IF r.kind = "Ok"
              THEN index' = r.idx /\ idxorigin' = "objects"
              ELSE UNCHANGED <<index, idxorigin>>
           /\ objects' = IF r.kind = "Panic" THEN objects ELSE from_objects_sorted(objects)
    /\ UNCHANGED idxbytes

\* PackIndex::parse(&idxbytes)
IdxParse ==
    /\ index = NoIndex
    /\ idxbytes # <<>>
    /\ LET r == PackIndex_parse(idxbytes)
       IN  /\ idxop' = [op |-> "parse", kind |-> r.kind]
           /\ IF r.kind = "Ok"
              THEN index' = r.idx /\ idxorigin' = "parse"
              ELSE UNCHANGED <<index, idxorigin>>
    /\ UNCHANGED <<objects, idxbytes>>

\* index.find(sha)
IdxFind ==
    /\ index # NoIndex
    /\ \E sha \in FindProbes :
          LET r == find(index, sha)
          IN  idxop' = [op |-> "find", kind |-> r.kind, sha |-> sha,
                        offset |-> IF r.kind = "Some" THEN r.offset ELSE 0]
    /\ UNCHANGED <<objects, index, idxbytes, idxorigin>>

\* index.encode()
IdxEncode ==
    /\ index # NoIndex
    /\ LET r == PackIndex_encode(index)
       IN  idxop' = [op |-> "encode", kind |-> r.kind,
                     bytes |-> IF r.kind = "Ok" THEN r.bytes ELSE <<>>]
    /\ UNCHANGED <<objects, index, idxbytes, idxorigin>>

IdxNext ==
    \/ IdxFromObjects /\ UNCHANGED <<deltaVars, objVars, packVars, streamVars, otherVars>>
    \/ IdxParse /\ UNCHANGED <<deltaVars, objVars, packVars, streamVars, otherVars>>
    \/ IdxFind /\ UNCHANGED <<deltaVars, objVars, packVars, streamVars, otherVars>>
    \/ IdxEncode /\ UNCHANGED <<deltaVars, objVars, packVars, streamVars, otherVars>>

SpecIndex == IdxInit /\ [][IdxNext]_vars

----------------------------------------------------------------------------
(* Claims about the pack index *)

\* C1: for every hash looked up, find does not panic; it returns the offset
\* stored beside the hash when the index holds the hash, and None when it
\* does not.
C1_FindTotalAndCorrect ==
    idxop.op = "find" =>
        /\ idxop.kind # "Panic"
        /\ \A i \in 1..Len(index.shas) :
              index.shas[i] = idxop.sha =>
                  idxop.kind = "Some" /\ idxop.offset = index.offsets[i]
        /\ (\A i \in 1..Len(index.shas) : index.shas[i] # idxop.sha) =>
              idxop.kind = "None"

\* a well-formed version-2 index byte string: magic, version, 256 fanout
\* words that do not decrease, N = fanout[255] hashes, CRCs and offsets, the
\* pack SHA-1, and the SHA-1 of all bytes before it
IsWellFormedIdx(B) ==
    /\ Len(B) >= FanoutEnd + 2 * ShaLen
    /\ Slice(B, 0, 4) = <<255, 116, 79, 99>>
    /\ Slice(B, 4, 8) = <<0, 0, 0, 2>>
    /\ \A b \in 1..(FanoutLen - 1) : ReadU32(B, 8 + 4 * (b - 1)) <= ReadU32(B, 8 + 4 * b)
    /\ Len(B) = FanoutEnd + 28 * ReadU32(B, 8 + 4 * (FanoutLen - 1)) + 2 * ShaLen
    /\ SliceFrom(B, Len(B) - ShaLen) = sha1_hash(Slice(B, 0, Len(B) - ShaLen))

\* C2: parse succeeds on every well-formed index byte string B, and
\* encoding the parsed index gives B back byte for byte.
C2_IndexRoundTrip ==
    IsWellFormedIdx(idxbytes) =>
        /\ idxop.op = "parse" => idxop.kind = "Ok"
        /\ (idxorigin = "parse" /\ idxop.op = "encode") =>
              idxop.kind = "Ok" /\ idxop.bytes = idxbytes

\* an index of two or more entries was parsed from a well-formed byte string
\* and encoded again
C2_Witness ==
    /\ IsWellFormedIdx(idxbytes)
    /\ idxorigin = "parse"
    /\ idxop.op = "encode"
    /\ Len(index.shas) >= 2
    /\ index.checksums # index.offsets

\* C4: after from_objects succeeds, fanout[b] is the number of stored hashes
\* whose first byte is at most b, for every b in 0..255; so fanout does not
\* decrease and fanout[255] is the number of entries.
C4_FanoutCounts ==
    (idxop.op = "from_objects" /\ idxop.kind = "Ok") =>
        /\ \A b \in 0..(FanoutLen - 1) :
              index.fanout[b] = Cardinality({i \in 1..Len(index.shas) : index.shas[i][1] <= b})
        /\ \A b \in 1..(FanoutLen - 1) : index.fanout[b - 1] <= index.fanout[b]
        /\ index.fanout[FanoutLen - 1] = Len(idxop.input)
        /\ Len(index.shas) = Len(idxop.input)

\* from_objects was called on three objects whose hashes start with 0, 128
\* and 255
C4_Witness ==
    /\ idxop.op = "from_objects"
    /\ idxop.kind = "Ok"
    /\ Len(index.shas) = 3
    /\ index.fanout[0] = 1
    /\ index.fanout[128] = 2
    /\ index.fanout[254] = 2
    /\ index.fanout[255] = 3

\* the (hash, offset, crc) of the triple t
RowOfTriple(t) == <<TripleSha(t), t[1], t[2]>>

\* the (hash, offset, crc) at position i of the arrays of the index
RowOfIndex(idx, i) == <<idx.shas[i], idx.offsets[i], idx.checksums[i]>>

\* C27: after from_objects on a list of (offset, crc, object) triples, shas
\* is sorted ascending by hash bytes and the arrays are parallel: each
\* (shas[i], offsets[i], checksums[i]) is the (hash, offset, crc) of an input
\* triple, and every input triple is there exactly as often as in the input.
C27_SortedParallelArrays ==
    idxop.op = "from_objects" =>
        /\ idxop.kind = "Ok"
        /\ Len(index.shas) = Len(idxop.input)
        /\ Len(index.offsets) = Len(idxop.input)
        /\ Len(index.checksums) = Len(idxop.input)
        /\ \A i \in 1..(Len(index.shas) - 1) :
              \E k \in 1..ShaLen :
                 /\ \A j \in 1..(k - 1) : index.shas[i][j] = index.shas[i + 1][j]
                 /\ \/ index.shas[i][k] < index.shas[i + 1][k]
                    \/ k = ShaLen /\ index.shas[i][k] = index.shas[i + 1][k]
        /\ \A i \in 1..Len(index.shas) :
              \E j \in 1..Len(idxop.input) : RowOfIndex(index, i) = RowOfTriple(idxop.input[j])
        /\ \A j \in 1..Len(idxop.input) :
              Cardinality({ i \in 1..Len(index.shas) :
                              RowOfIndex(index, i) = RowOfTriple(idxop.input[j]) })
                 = Cardinality({ k \in 1..Len(idxop.input) : idxop.input[k] = idxop.input[j] })

\* from_objects was called on three distinct objects given in descending
\* order of their hashes
C27_Witness ==
    /\ idxop.op = "from_objects"
    /\ idxop.kind = "Ok"
    /\ Len(idxop.input) = 3
    /\ \A j \in 1..2 : TripleSha(idxop.input[j])[1] > TripleSha(idxop.input[j + 1])[1]
    /\ index.offsets[1] = idxop.input[3][1]
    /\ index.offsets[3] = idxop.input[1][1]


\* an index byte string is damaged: it is shorter than the header, the
\* fanout, the tables its fanout announces and the two trailing SHA-1s; or
\* its magic or its version is wrong; or its last 20 bytes are not the SHA-1
\* of the bytes before them
IsDamagedIdx(B) ==
    \/ Len(B) < FanoutEnd + 2 * ShaLen
    \/ Len(B) < FanoutEnd + 28 * ReadU32(B, 8 + 4 * (FanoutLen - 1)) + 2 * ShaLen
    \/ Slice(B, 0, 4) # MAGIC
    \/ ReadU32(B, 4) # VERSION
    \/ SliceFrom(B, Len(B) - ShaLen) # sha1_hash(Slice(B, 0, Len(B) - ShaLen))

\* C29: parse on a damaged index byte string returns an error value and
\* yields no index; it does not panic.
C29_DamagedIndexIsError ==
    (idxop.op = "parse" /\ IsDamagedIdx(idxbytes)) =>
        idxop.kind = "Err" /\ index = NoIndex

----------------------------------------------------------------------------
(* The object model: inputs and operations *)

ObjKinds == {"Blob", "Tree"}

ObjContents == { <<>>, <<7>>, <<7, 9>> }

\* deltas for sources of 0, 1 and 2 bytes, and one that no source fits
ObjPatches ==
    { <<0, 1, 1, 5>>, <<1, 2, 145, 0, 1, 1, 3>>, <<2, 2, 144, 2>>, <<2, 1, 145, 1, 1>>,
      <<4, 1, 1, 5>> }

\* the text of a loose object header: "<name> <size>"
LooseHeader(name, size) == name \o <<32>> \o size

\* loose files as they inflate: the canonical encoding of each object; the
\* blob <<7>> with its size written "01" and "+1"; and files open rejects: a
\* size that is not the length of the content, an unknown type name, no NUL
LooseFiles ==
    { GitObject_encode(GitObject_new(k, c)).bytes : k \in ObjKinds, c \in ObjContents }
    \cup { LooseHeader(TypeName("Blob"), <<48, 49>>) \o <<0, 7>>,
           LooseHeader(TypeName("Blob"), <<43, 49>>) \o <<0, 7>>,
           LooseHeader(TypeName("Blob"), <<50>>) \o <<0, 7>>,
           LooseHeader(<<98, 108, 117, 98>>, <<49>>) \o <<0, 7>>,
           LooseHeader(TypeName("Blob"), <<49>>) }

ObjInit ==
    /\ gobjs = [k \in Slots |-> NoObject]
    /\ gcall = [op |-> "none"]
    /\ IdxIdle
    /\ DeltaIdle
    /\ PackIdle
    /\ StreamIdle
    /\ OtherIdle

\* GitObject::new(object_type, content)
ObjNew ==
    \E k \in ObjKinds, c \in ObjContents :
        /\ gobjs' = [gobjs EXCEPT !["made"] = GitObject_new(k, c)]
        /\ gcall' = [op |-> "new", kind |-> "Ok"]

\* GitObject::open(repo, sha1) of a loose file stored under its own hash, or
\* under another name
ObjOpen ==
    \E file \in LooseFiles, rightName \in BOOLEAN :
        LET sha1 == IF rightName THEN sha1_hash_hex(file) ELSE ToHex(IdxPackSha)
            r    == GitObject_open(file, sha1)
        IN  /\ gobjs' = IF r.kind = "Ok" THEN [gobjs EXCEPT !["made"] = r.obj] ELSE gobjs
            /\ gcall' = [op |-> "open", kind |-> r.kind]

\* object.patch(delta)
ObjPatch ==
    /\ gobjs["made"] # NoObject
    /\ \E d \in ObjPatches :
          LET r == GitObject_patch(gobjs["made"], d)
          IN  /\ gobjs' = IF r.kind = "Ok" THEN [gobjs EXCEPT !["made"] = r.obj] ELSE gobjs
              /\ gcall' = [op |-> "patch", kind |-> r.kind]

\* object.clone(): the derived Clone copies the cache with the fields
ObjClone ==
    /\ gobjs["made"] # NoObject
    /\ gobjs' = [gobjs EXCEPT !["clone"] = gobjs["made"]]
    /\ gcall' = [op |-> "clone", kind |-> "Ok"]

\* object.sha()
ObjSha ==
    \E k \in Slots :
        /\ gobjs[k] # NoObject
        /\ gcall' = [op |-> "sha", kind |-> "Ok", slot |-> k, sha |-> GitObject_sha(gobjs[k])]
        /\ gobjs' = [gobjs EXCEPT ![k] = GitObject_sha_cached(gobjs[k])]

ObjNext ==
    \/ ObjNew /\ UNCHANGED <<idxVars, deltaVars, packVars, streamVars, otherVars>>
    \/ ObjOpen /\ UNCHANGED <<idxVars, deltaVars, packVars, streamVars, otherVars>>
    \/ ObjPatch /\ UNCHANGED <<idxVars, deltaVars, packVars, streamVars, otherVars>>
    \/ ObjClone /\ UNCHANGED <<idxVars, deltaVars, packVars, streamVars, otherVars>>
    \/ ObjSha /\ UNCHANGED <<idxVars, deltaVars, packVars, streamVars, otherVars>>

SpecObject == ObjInit /\ [][ObjNext]_vars

----------------------------------------------------------------------------
(* Claims about the object model *)

\* C7: whatever made the object (new, patch, clone, open) and however often
\* sha() was called before, sha() returns the hex SHA-1 of
\* "<kind-name> <decimal content length>\0" ++ content, which is encode().0 and
\* depends on (kind, content) alone.
C7_ShaIsCanonical ==
    gcall.op = "sha" =>
        LET obj == gobjs[gcall.slot]
        IN  /\ gcall.sha = sha1_hash_hex(TypeName(obj.object_type) \o <<32>>
                              \o ToDecimal(Len(obj.content)) \o <<0>> \o obj.content)
            /\ gcall.sha = GitObject_encode(obj).hash
            /\ \A k \in Slots :
                  (gobjs[k] # NoObject
                     /\ gobjs[k].object_type = obj.object_type
                     /\ gobjs[k].content = obj.content) =>
                  GitObject_sha(gobjs[k]) = gcall.sha

----------------------------------------------------------------------------
(* The packfile: inputs and operations *)

\* what the i-th entry of a pack can be: a Blob (odd i) or Tree (even i), an
\* OfsDelta on the entry back places before it, or a RefDelta on the object
\* of the entry to, to = 0 standing for an object the pack does not hold
EntryMenu(i) ==
    { [t |-> "base"] }
    \cup { [t |-> "ofs", back |-> b] : b \in 1..(i - 1) }
    \cup { [t |-> "ref", to |-> j] : j \in 0..(i - 1) }

\* the packs written: 0..MaxEntries entries
PackSpecs ==
    UNION { { es \in [1..n -> UNION { EntryMenu(i) : i \in 1..n }] :
                \A i \in 1..n : es[i] \in EntryMenu(i) } : n \in 0..MaxEntries }

\* back-offsets written into an OfsDelta as they are
RawBackOffsets == {0, 1, 6, 13, 18}

\* packs whose last entry is an OfsDelta with such a back-offset; after a
\* Blob entry it starts at 17, alone at 12
RawOfsPacks ==
    { << [t |-> "rawofs", k |-> k] >> : k \in RawBackOffsets }
    \cup { << [t |-> "base"], [t |-> "rawofs", k |-> k] >> : k \in RawBackOffsets }

\* the small packs, fetched over the side-band or read with a damaged
\* header: 1..MaxStreamEntries entries
StreamPacks == { es \in PackSpecs : Len(es) >= 1 /\ Len(es) <= MaxStreamEntries }

\* the entry a delta entry is based on, 0 for none in the pack
BaseOf(es, i) ==
    IF es[i].t = "ofs" THEN i - es[i].back
    ELSE IF es[i].t = "ref" THEN es[i].to
    ELSE 0

\* the object git reconstructs for entry i: a base's own object, a delta's
\* base object with one byte appended; NoObject when the chain leaves the pack
RECURSIVE ObjectOf(_, _)
ObjectOf(es, i) ==
    IF es[i].t = "base"
    THEN GitObject_new(IF i % 2 = 1 THEN "Blob" ELSE "Tree", <<i, 9>>)
    ELSE IF BaseOf(es, i) = 0 THEN NoObject
    ELSE LET b == ObjectOf(es, BaseOf(es, i))
         IN  IF b = NoObject THEN NoObject
             ELSE GitObject_new(b.object_type, b.content \o <<100 + i>>)

\* the hash of an object no pack holds
MissingSha == [k \in 1..ShaLen |-> 171]

\* the delta of entry i: source length n, target length n + 1, a copy of the
\* n source bytes, an insert of the byte 100 + i
DeltaOf(es, i) ==
    LET b == IF BaseOf(es, i) = 0 THEN NoObject ELSE ObjectOf(es, BaseOf(es, i))
        n == IF b = NoObject THEN 2 ELSE Len(b.content)
    IN  <<n, n + 1, 144, n, 1, 100 + i>>

\* the negative offset of an OfsDelta as git writes it
RECURSIVE OffsetBytes(_, _)
OffsetBytes(k, last) ==
    LET byte == (k % 128) + (IF last THEN 0 ELSE 128)
    IN  IF k < 128 THEN <<byte>>
        ELSE OffsetBytes((k \div 128) - 1, FALSE) \o <<byte>>

\* the bytes of entry i and the offset it starts at; a Tree is written with a
\* size header of two bytes, the second one 0
RECURSIVE EntryBytes(_, _), PackStart(_, _)
EntryBytes(es, i) ==
    IF es[i].t = "base"
    THEN LET content == ObjectOf(es, i).content
         IN  (IF i % 2 = 1 THEN <<3 * 16 + Len(content)>>
              ELSE <<128 + 2 * 16 + Len(content), 0>>) \o Deflate(content)
    ELSE IF es[i].t = "ofs"
    THEN <<6 * 16 + Len(DeltaOf(es, i))>>
         \o OffsetBytes(PackStart(es, i) - PackStart(es, i - es[i].back), TRUE)
         \o Deflate(DeltaOf(es, i))
    ELSE IF es[i].t = "rawofs"
    THEN <<6 * 16 + Len(DeltaOf(es, i))>> \o OffsetBytes(es[i].k, TRUE)
         \o Deflate(DeltaOf(es, i))
    ELSE <<7 * 16 + Len(DeltaOf(es, i))>>
         \o (IF ObjectOf(es, i) = NoObject THEN MissingSha
             ELSE FromHex(GitObject_sha(ObjectOf(es, es[i].to))).bytes)
         \o Deflate(DeltaOf(es, i))

PackStart(es, i) ==
    IF i = 1 THEN HEADER_LENGTH ELSE PackStart(es, i - 1) + Len(EntryBytes(es, i - 1))

\* the pack of the entries es as git writes it; with good FALSE the last
\* byte of the trailer is off by one
PackBytes(es, good) ==
    LET body == <<80, 65, 67, 75, 0, 0, 0, 2>> \o DiskWord(Len(es))
                \o Flatten([i \in 1..Len(es) |-> EntryBytes(es, i)])
        sum  == sha1_hash(body)
    IN  body \o (IF good THEN sum ELSE [sum EXCEPT ![ShaLen] = (sum[ShaLen] + 1) % 256])

\* the pack of es with the type id of its first entry replaced by t, the
\* trailer that of the changed bytes
RetypedPack(es, t) ==
    LET whole == PackBytes(es, TRUE)
        first == whole[HEADER_LENGTH + 1]
        body  == [SubSeq(whole, 1, Len(whole) - ShaLen)
                     EXCEPT ![HEADER_LENGTH + 1] =
                        (first \div 128) * 128 + t * 16 + (first % 16)]
    IN  body \o sha1_hash(body)

\* the .idx file git writes for the pack: one entry per reconstructed
\* object, with the CRC of the entry's bytes in the pack
GitIdxTriples(es) ==
    LET held == { i \in 1..Len(es) : ObjectOf(es, i) # NoObject }
        RECURSIVE Listed(_)
        Listed(i) ==
            IF i > Len(es) THEN <<>>
            ELSE (IF i \in held
                  THEN << <<PackStart(es, i), checksum_ieee(EntryBytes(es, i)),
                            ObjectOf(es, i)>> >>
                  ELSE <<>>) \o Listed(i + 1)
    IN  SortBySha(Listed(1))

GitIdxFile(es) ==
    LET bytes == PackBytes(es, TRUE)
    IN  IdxFileWith(GitIdxTriples(es), SliceFrom(bytes, Len(bytes) - ShaLen))

\* the trailer of a pack is the SHA-1 of the bytes before it
TrailerValid(bytes) ==
    /\ Len(bytes) >= ShaLen
    /\ SliceFrom(bytes, Len(bytes) - ShaLen) = sha1_hash(Slice(bytes, 0, Len(bytes) - ShaLen))

\* a pack of PackSpecs or RawOfsPacks: with a valid trailer, read with or
\* without its .idx file; a pack
\* with a trailer that is off, read without; or a pack of at most
\* MaxStreamEntries entries with the type id of its first entry made 0 or 5,
\* or cut short at any byte
PackInit ==
    /\ pspec \in PackSpecs \cup RawOfsPacks
    /\ \/ pbytes = PackBytes(pspec, TRUE) /\ pidx = NoIndex
       \/ /\ pbytes = PackBytes(pspec, TRUE)
          /\ \E file \in {GitIdxFile(pspec)} : pidx = PackIndex_parse(file).idx
       \/ pbytes = PackBytes(pspec, FALSE) /\ pidx = NoIndex
       \/ /\ Len(pspec) >= 1 /\ Len(pspec) <= MaxStreamEntries
          /\ \E t \in {0, 5} : pbytes = RetypedPack(pspec, t)
          /\ pidx = NoIndex
       \/ /\ Len(pspec) <= MaxStreamEntries
          /\ \E whole \in {PackBytes(pspec, TRUE)} :
                \E cut \in 0..(Len(whole) - 1) : pbytes = Slice(whole, 0, cut)
          /\ pidx = NoIndex
    /\ parser = from_contents(pbytes)
    /\ pstatus = "slurp"
    /\ packfile = NoPack
    /\ pcall = [op |-> "none"]
    /\ IdxIdle
    /\ DeltaIdle
    /\ ObjIdle
    /\ StreamIdle
    /\ OtherIdle

\* one turn of the loop of process_pending_lines (slurp): process_line; an
\* error leaves the loop through the ? operator
PackProcessLine ==
    /\ pstatus = "slurp"
    /\ ~eof(parser)
    /\ LET r == process_line(parser)
       IN  /\ parser' = r.p
           /\ pstatus' = IF r.kind = "Ok" THEN "slurp" ELSE r.kind
    /\ UNCHANGED <<pspec, pbytes, pidx, packfile, pcall>>

\* the loop of process_pending_lines ends: the parser is at End
PackSlurpEnd ==
    /\ pstatus = "slurp"
    /\ eof(parser)
    /\ pstatus' = "eof"
    /\ UNCHANGED <<pspec, pbytes, pidx, parser, packfile, pcall>>

\* PackFileParser::parse(None, index_opt) after slurp, as in
\* PackFile::parse_with_index
PackParse ==
    /\ pstatus = "eof"
    /\ LET r == PackFileParser_parse(parser, pidx)
       IN  /\ pstatus' = IF r.kind = "Ok" THEN "parsed" ELSE r.kind
           /\ packfile' = IF r.kind = "Ok" THEN r.pack ELSE NoPack
    /\ UNCHANGED <<pspec, pbytes, pidx, parser, pcall>>

\* PackFile::encode
PackEncode ==
    /\ pstatus = "parsed"
    /\ pcall' = [op |-> "encode", bytes |-> PackFile_encode(packfile)]
    /\ UNCHANGED <<pspec, pbytes, pidx, parser, pstatus, packfile>>

\* PackFile::find_by_offset at the start of an entry
PackFindByOffset ==
    /\ pstatus = "parsed"
    /\ \E i \in 1..Len(pspec) :
          pcall' = [op |-> "find_by_offset", entry |-> i,
                    res |-> find_by_offset(packfile, PackStart(pspec, i))]
    /\ UNCHANGED <<pspec, pbytes, pidx, parser, pstatus, packfile>>

\* PackFile::find_by_sha of the object of an entry, or of an object that the
\* pack does not hold (entry 0)
PackFindBySha ==
    /\ pstatus = "parsed"
    /\ \E i \in 0..Len(pspec) :
          LET held == IF i = 0 THEN FALSE ELSE ObjectOf(pspec, i) # NoObject
              sha  == IF held THEN GitObject_sha(ObjectOf(pspec, i)) ELSE ToHex(MissingSha)
          IN  pcall' = [op |-> "find_by_sha", entry |-> IF held THEN i ELSE 0,
                        res |-> find_by_sha(packfile, sha)]
    /\ UNCHANGED <<pspec, pbytes, pidx, parser, pstatus, packfile>>

\* PackFile::read_at_offset at the start offset of an entry that the parser
\* has yielded
PackReadAtOffset ==
    /\ pstatus = "parsed"
    /\ \E k \in 1..Len(parser.objects) :
          pcall' = [op |-> "read_at_offset", entry |-> k,
                    res |-> read_at_offset(packfile, parser.objects[k][1])]
    /\ UNCHANGED <<pspec, pbytes, pidx, parser, pstatus, packfile>>

PackNext ==
    \/ PackProcessLine /\ UNCHANGED <<idxVars, deltaVars, objVars, streamVars, otherVars>>
    \/ PackSlurpEnd /\ UNCHANGED <<idxVars, deltaVars, objVars, streamVars, otherVars>>
    \/ PackParse /\ UNCHANGED <<idxVars, deltaVars, objVars, streamVars, otherVars>>
    \/ PackEncode /\ UNCHANGED <<idxVars, deltaVars, objVars, streamVars, otherVars>>
    \/ PackFindByOffset /\ UNCHANGED <<idxVars, deltaVars, objVars, streamVars, otherVars>>
    \/ PackFindBySha /\ UNCHANGED <<idxVars, deltaVars, objVars, streamVars, otherVars>>
    \/ PackReadAtOffset /\ UNCHANGED <<idxVars, deltaVars, objVars, streamVars, otherVars>>

SpecPack == PackInit /\ [][PackNext]_vars

\* the packs with one of the four magic bytes or of the four version bytes
\* of bytes changed
BadHeaders(bytes) ==
    { [bytes EXCEPT ![k] = v] : k \in 1..8, v \in {0, 1, 3, 80} } \ {bytes}

\* packs of at most MaxStreamEntries entries: as they are, read with or
\* without the .idx file, or with a byte of the magic or version changed
PackHeaderInit ==
    /\ pspec \in StreamPacks
    /\ \E whole \in {PackBytes(pspec, TRUE)} :
          \/ pbytes = whole /\ pidx = NoIndex
          \/ /\ pbytes = whole
             /\ \E file \in {GitIdxFile(pspec)} : pidx = PackIndex_parse(file).idx
          \/ pbytes \in BadHeaders(whole) /\ pidx = NoIndex
    /\ parser = from_contents(pbytes)
    /\ pstatus = "slurp"
    /\ packfile = NoPack
    /\ pcall = [op |-> "none"]
    /\ IdxIdle
    /\ DeltaIdle
    /\ ObjIdle
    /\ StreamIdle
    /\ OtherIdle

SpecPackHeader == PackHeaderInit /\ [][PackNext]_vars

\* packs of 1..MaxReadEntries entries, as they are, read with or without the
\* .idx file
PackReadInit ==
    /\ pspec \in { es \in PackSpecs : Len(es) >= 1 /\ Len(es) <= MaxReadEntries }
    /\ \E whole \in {PackBytes(pspec, TRUE)} :
          \/ pbytes = whole /\ pidx = NoIndex
          \/ /\ pbytes = whole
             /\ \E file \in {GitIdxFile(pspec)} : pidx = PackIndex_parse(file).idx
    /\ parser = from_contents(pbytes)
    /\ pstatus = "slurp"
    /\ packfile = NoPack
    /\ pcall = [op |-> "none"]
    /\ IdxIdle
    /\ DeltaIdle
    /\ ObjIdle
    /\ StreamIdle
    /\ OtherIdle

SpecPackRead == PackReadInit /\ [][PackNext]_vars

----------------------------------------------------------------------------
(* Claims about the packfile *)

\* the first four bytes are not "PACK", or the next four are not the
\* big-endian number 2
BadMagicOrVersion(bytes) ==
    \/ SubSeq(bytes, 1, 4) # <<80, 65, 67, 75>>
    \/ SubSeq(bytes, 5, 8) # <<0, 0, 0, 2>>

\* C16: a pack whose magic is not "PACK" or whose version is not 2 is
\* rejected at the Init step: the parser is still in state Init with no
\* entry parsed, the first call of process_line has returned an error, and
\* there is no PackFile.
C16_BadHeaderRejected ==
    (Len(pbytes) >= HEADER_LENGTH /\ BadMagicOrVersion(pbytes)) =>
        /\ parser.state.name = "Init"
        /\ parser.objects = <<>>
        /\ packfile = NoPack
        /\ pstatus \in {"slurp", "Err"}
        /\ pstatus = "slurp" => parser = from_contents(pbytes)

\* a pack with the magic right and the version wrong has been rejected
C16_Witness ==
    /\ Len(pbytes) >= HEADER_LENGTH
    /\ SubSeq(pbytes, 1, 4) = <<80, 65, 67, 75>>
    /\ SubSeq(pbytes, 5, 8) # <<0, 0, 0, 2>>
    /\ pstatus = "Err"
    /\ parser.state.name = "Init"

\* the input is a pack as git writes it: well-formed entries, every
\* back-offset that of an earlier entry, a valid trailer
WellFormedPack ==
    /\ pspec \in PackSpecs
    /\ pbytes = PackBytes(pspec, TRUE)
    /\ TrailerValid(pbytes)

\* C3: a pack whose entries are well formed and whose trailer is valid is
\* parsed without failure, and encode of the PackFile gives back its bytes.
C3_PackRoundTrip ==
    WellFormedPack =>
        /\ pstatus \notin {"Err", "Panic"}
        /\ pcall.op = "encode" => pcall.bytes = pbytes

\* C5: for a pack that holds the base of every delta, the index parse builds
\* when no .idx is supplied has one entry for every entry of the pack,
\* OfsDelta and RefDelta entries included, each under the hash of the
\* reconstructed object and at the entry's offset.
C5_BuiltIndexCoversEveryEntry ==
    (/\ pstatus = "parsed"
     /\ pidx = NoIndex
     /\ \A i \in 1..Len(pspec) : ObjectOf(pspec, i) # NoObject) =>
        /\ Len(packfile.index.shas) = Len(parser.objects)
        /\ Len(parser.objects) = Len(pspec)
        /\ \A i \in 1..Len(pspec) :
              ObjectOf(pspec, i) # NoObject =>
                 \E k \in 1..Len(packfile.index.shas) :
                    /\ ToHex(packfile.index.shas[k]) = GitObject_sha(ObjectOf(pspec, i))
                    /\ packfile.index.offsets[k] = PackStart(pspec, i)

\* C6: find_by_offset and find_by_sha of a delta entry whose chain ends at a
\* Base of the pack return the base's content with the patches applied from
\* the base outwards, under the base's type.
C6_DeltaChainResolved ==
    (/\ pcall.op \in {"find_by_offset", "find_by_sha"}
     /\ pcall.entry > 0
     /\ pspec[pcall.entry].t # "base"
     /\ ObjectOf(pspec, pcall.entry) # NoObject) =>
        /\ pcall.res.kind = "Ok"
        /\ pcall.res.obj.content = ObjectOf(pspec, pcall.entry).content
        /\ pcall.res.obj.object_type = ObjectOf(pspec, pcall.entry).object_type

\* C10: the parser is at End, and a PackFile exists, only for a pack whose
\* last 20 bytes are the SHA-1 of the bytes before them.
C10_TrailerVerified ==
    (eof(parser) \/ packfile # NoPack) => TrailerValid(pbytes)

\* C14: slurp ends on every input, whole or cut short: while it runs, a call
\* of process_line either fails or changes the state of the parser, so no
\* call is repeated for ever.
C14_SlurpTerminates ==
    (pstatus = "slurp" /\ ~eof(parser)) =>
        LET r == process_line(parser)
        IN  r.kind # "Ok" \/ r.p # parser

\* C11: the hash a parsed PackFile goes by (PackFile::sha, the name of the
\* file written, and the pack_sha of the index parse builds) is the hex text
\* of the last 20 bytes of the pack.
C11_PackShaIsTrailer ==
    pstatus = "parsed" =>
        /\ packfile.hexsha = ToHex(SliceFrom(pbytes, Len(pbytes) - ShaLen))
        /\ pidx = NoIndex =>
              packfile.index.pack_sha = ToHex(SliceFrom(pbytes, Len(pbytes) - ShaLen))

\* C12: on a pack with a valid trailer and N >= 0 well-formed entries the
\* parser does not fail and goes Init, N times (entry header, entry body),
\* trailer, End: the entries parsed so far start at 12 and then where the
\* one before ended, an entry header or body is entered only while fewer
\* than N entries are parsed, the trailer and End only with all N.
C12_ParserStateSequence ==
    WellFormedPack =>
        LET n  == Len(pspec)
            k  == Len(parser.objects)
            st == parser.state
        IN  /\ pstatus \notin {"Err", "Panic"}
            /\ k <= n
            /\ \A i \in 1..k : parser.objects[i][1] = PackStart(pspec, i)
            /\ st.name \in {"ParseEntryHeader", "ParseEntryBody"} =>
                  k < n /\ st.offset = PackStart(pspec, k + 1)
            /\ st.name = "ParseCheckSum" => k = n /\ st.pos = Len(pbytes) - ShaLen
            /\ st.name = "End" => k = n

----------------------------------------------------------------------------
(* The fetch: a pack received in side-band packet lines *)

\* the sets of at most k places 1..n-1 at which n bytes are cut
RECURSIVE CutSets(_, _)
CutSets(n, k) ==
    IF k = 0 THEN { {} }
    ELSE LET fewer == CutSets(n, k - 1)
         IN  fewer \cup { c \cup {a} : c \in fewer, a \in 1..(n - 1) }

\* the bytes from position from on as channel-1 lines, cut at the places cuts
RECURSIVE DataLines(_, _, _)
DataLines(bytes, from, cuts) ==
    IF cuts = {} THEN << <<1>> \o SliceFrom(bytes, from) >>
    ELSE LET c == CHOOSE a \in cuts : \A b \in cuts : a <= b
         IN  << <<1>> \o Slice(bytes, from, c) >> \o DataLines(bytes, c, cuts \ {c})

\* "NAK\n"
NakLine == <<78, 65, 75, 10>>

\* a progress message on channel 2, an error message on channel 3, a line on
\* a channel that does not exist
ProgressLine == <<2, 111, 107>>

ErrorLine == <<3, 101, 114, 114>>

UnknownLine == <<4, 111, 107>>

\* what the server sends for a pack: its bytes cut into lines; or one of the
\* other lines and then the pack in one line; or the error line alone
StreamFeeds(bytes) ==
    { DataLines(bytes, 0, c) : c \in CutSets(Len(bytes), MaxCuts) }
    \cup { <<x>> \o DataLines(bytes, 0, {}) :
              x \in {NakLine, ProgressLine, ErrorLine, UnknownLine} }
    \cup { <<ErrorLine>> }

StreamInit ==
    /\ \E es \in StreamPacks : sbytes = PackBytes(es, TRUE)
    /\ sfeed \in StreamFeeds(sbytes)
    /\ snext = 0
    /\ sparser = PackFileParser_new
    /\ sstatus = "recv"
    /\ IdxIdle
    /\ DeltaIdle
    /\ ObjIdle
    /\ PackIdle
    /\ OtherIdle

\* one turn of the loop of receive_packet_file_with_sideband:
\* read_packet_line gives a line, and add_line takes it unless it is "NAK\n"
StreamAddLine ==
    /\ sstatus = "recv"
    /\ snext < Len(sfeed)
    /\ snext' = snext + 1
    /\ LET line == sfeed[snext + 1]
           r    == IF line = NakLine THEN [kind |-> "Ok", p |-> sparser]
                   ELSE add_line(sparser, line)
       IN  /\ sparser' = r.p
           /\ sstatus' = IF r.kind = "Ok" THEN "recv" ELSE r.kind
    /\ UNCHANGED <<sbytes, sfeed>>

\* read_packet_line meets the flush packet: the loop ends and
\* process_pending_lines is called
StreamFlush ==
    /\ sstatus = "recv"
    /\ snext = Len(sfeed)
    /\ sstatus' = "pending"
    /\ UNCHANGED <<sbytes, sfeed, snext, sparser>>

\* one turn of the loop of process_pending_lines
StreamProcessLine ==
    /\ sstatus = "pending"
    /\ ~eof(sparser)
    /\ LET r == process_line(sparser)
       IN  /\ sparser' = r.p
           /\ sstatus' = IF r.kind = "Ok" THEN "pending" ELSE r.kind
    /\ UNCHANGED <<sbytes, sfeed, snext>>

\* process_pending_lines returns and the parser is handed out
StreamDone ==
    /\ sstatus = "pending"
    /\ eof(sparser)
    /\ sstatus' = "done"
    /\ UNCHANGED <<sbytes, sfeed, snext, sparser>>

StreamNext ==
    \/ StreamAddLine /\ UNCHANGED <<idxVars, deltaVars, objVars, packVars, otherVars>>
    \/ StreamFlush /\ UNCHANGED <<idxVars, deltaVars, objVars, packVars, otherVars>>
    \/ StreamProcessLine /\ UNCHANGED <<idxVars, deltaVars, objVars, packVars, otherVars>>
    \/ StreamDone /\ UNCHANGED <<idxVars, deltaVars, objVars, packVars, otherVars>>

SpecStream == StreamInit /\ [][StreamNext]_vars

----------------------------------------------------------------------------
(* Claims about the fetch *)

\* C13: a well-formed pack delivered in channel-1 lines, however it is cut,
\* is parsed without failure, and at the end the parser has the version,
\* entry count, entries with their offsets and checksum that from_contents
\* and slurp give on the whole pack.
C13_ChunkedEqualsSingleShot ==
    (\A i \in 1..Len(sfeed) : sfeed[i][1] = 1) =>
        /\ sstatus \notin {"Err", "Panic"}
        /\ sstatus = "done" =>
              LET whole == process_pending_lines(from_contents(sbytes))
              IN  /\ whole.kind = "Ok"
                  /\ sparser.version = whole.p.version
                  /\ sparser.entries = whole.p.entries
                  /\ sparser.objects = whole.p.objects
                  /\ sparser.checksum = whole.p.checksum

\* C15: once add_line has been given a line of channel 3, the fetch has
\* failed with an error: no parser is handed out.
C15_RemoteErrorIsFatal ==
    (\E i \in 1..snext : sfeed[i][1] = 3) => sstatus = "Err"

\* the payloads (line minus its tag byte) of the channel-1 lines among the
\* first n lines of the feed, in order
RECURSIVE Channel1Payloads(_, _)
Channel1Payloads(feed, n) ==
    IF n = 0 THEN <<>>
    ELSE Channel1Payloads(feed, n - 1)
            \o (IF feed[n][1] = 1 THEN Tail(feed[n]) ELSE <<>>)

\* C28: after every add_line the buffer of the parser is the concatenation of
\* the payloads of the channel-1 lines given so far and the byte counter that
\* guards the decoding of an entry body is the length of that buffer; a line
\* of channel 2 leaves the whole parser as it was.
C28_BufferAndCounter ==
    [][(sstatus = "recv" /\ snext' = snext + 1 /\ sfeed[snext'] # NakLine) =>
          /\ sfeed[snext'][1] \in {1, 2} =>
                /\ sparser'.packfile_data = Channel1Payloads(sfeed, snext')
                /\ sparser'.size = Len(sparser'.packfile_data)
          /\ sfeed[snext'][1] = 2 => sparser' = sparser]_vars

----------------------------------------------------------------------------
(* Claims about malformed entries and lookups *)

\* bits 6..4 of the byte at offset off
TypeIdAt(bytes, off) == (At(bytes, off) \div 16) % 8

\* C17: an entry header with type id 0 or 5 is refused with an error value,
\* by the parser (process_line at that entry header) and by the reader
\* (read_at_offset at a position of the pack that holds such a byte).
C17_ReservedTypeIsError ==
    /\ (/\ pstatus = "slurp"
        /\ parser.state.name = "ParseEntryHeader"
        /\ parser.state.offset < Len(parser.packfile_data)
        /\ TypeIdAt(parser.packfile_data, parser.state.offset) \in {0, 5}) =>
           process_line(parser).kind = "Err"
    /\ packfile # NoPack =>
          \A off \in HEADER_LENGTH..(Len(pbytes) - ShaLen - 1) :
             TypeIdAt(pbytes, off) \in {0, 5} => read_at_offset(packfile, off).kind = "Err"

\* C18: the crc32 the parser records for an entry, and the one in the index
\* built from the pack, is the CRC-32 of the entry's bytes in the pack, from
\* its first header byte to the last byte of its zlib stream.
C18_CrcOfCompressedBytes ==
    (pstatus \in {"eof", "parsed"} /\ Len(parser.objects) = Len(pspec)) =>
        \A i \in 1..Len(pspec) :
           LET onDisk == checksum_ieee(Slice(pbytes, PackStart(pspec, i),
                                             PackStart(pspec, i + 1)))
           IN  /\ parser.objects[i][2] = onDisk
               /\ (pstatus = "parsed" /\ pidx = NoIndex) =>
                     \A k \in 1..Len(packfile.index.offsets) :
                        packfile.index.offsets[k] = PackStart(pspec, i) =>
                           packfile.index.checksums[k] = onDisk

\* C19: an OfsDelta entry at offset p whose back-offset k is 0, or reaches
\* before the first entry (p - k < 12), is not resolved: find_by_offset of
\* the entry returns an error value.
C19_BadBackOffsetIsError ==
    (/\ pcall.op = "find_by_offset"
     /\ pspec[pcall.entry].t = "rawofs"
     /\ \/ pspec[pcall.entry].k = 0
        \/ PackStart(pspec, pcall.entry) - pspec[pcall.entry].k < HEADER_LENGTH) =>
        pcall.res.kind = "Err"

\* the chain of entry i reaches a RefDelta on an object the pack does not
\* hold
RECURSIVE MissingBase(_, _)
MissingBase(es, i) ==
    \/ es[i].t = "ref" /\ es[i].to = 0
    \/ es[i].t \in {"ofs", "ref"} /\ BaseOf(es, i) > 0 /\ MissingBase(es, BaseOf(es, i))

\* C20: find_by_offset of an entry whose chain reaches a RefDelta with a base
\* hash that the index does not find returns an error value of its own, not
\* the None that a lookup of a hash absent from the pack returns.
C20_MissingBaseIsError ==
    (pcall.op = "find_by_offset" /\ MissingBase(pspec, pcall.entry)) =>
        /\ pcall.res.kind = "Err"
        /\ pcall.res.kind # find_by_sha(packfile, ToHex(MissingSha)).kind

----------------------------------------------------------------------------
(* Claims about the walk of find_by_offset *)

\* the walk of find_by_offset from object on, which lies at position pos of
\* the pack while the local variable offset holds offset: at every OfsDelta
\* met, the next entry is read at the OfsDelta's own position less its offset
RECURSIVE ReadsFromOwnPosition(_, _, _, _, _)
ReadsFromOwnPosition(pack, object, offset, pos, fuel) ==
    IF object.t = "Base" \/ fuel = 0 THEN TRUE
    ELSE IF object.t = "OfsDelta"
    THEN LET to == NextOffset(offset, object.offset)
             n  == IF to < 0 THEN [kind |-> "Panic"] ELSE read_at_offset(pack, to)
         IN  /\ to = pos - object.offset
             /\ n.kind = "Ok" => ReadsFromOwnPosition(pack, n.obj, to, to, fuel - 1)
    ELSE LET off == find(pack.index, FromHex(ToHex(object.base)).bytes)
             n   == find_by_sha_unresolved(pack, object.base)
         IN  n.kind = "Ok" => ReadsFromOwnPosition(pack, n.obj, offset, off.offset, fuel - 1)

\* C22: in the walk of find_by_offset, the entry after an OfsDelta at position
\* p is read at p less the back-offset, at every depth, also when the
\* OfsDelta was reached through a RefDelta (p is then the offset the index
\* gave for the base hash).
C22_OfsDeltaReadFromOwnPosition ==
    (pcall.op = "find_by_offset" /\ WellFormedPack) =>
        LET offset == PackStart(pspec, pcall.entry)
            first  == read_at_offset(packfile, offset)
        IN  first.kind = "Ok" =>
                ReadsFromOwnPosition(packfile, first.obj, offset, offset, MaxWalk)

\* C23: find_by_offset terminates on every pack, index and offset, also on a
\* pack whose delta references lead to no base: the walk reaches a Base entry
\* or fails with an error after a bounded number of steps, and does not go
\* round without end.
C23_WalkEnds ==
    pcall.op = "find_by_offset" => pcall.res.kind # "Loop"

\* C26: for every entry (start_offset, e) that the parser has yielded for a
\* well-formed pack, read_at_offset(start_offset) decodes from the bytes that
\* the PackFile keeps exactly the entry e: the same variant, the same kind,
\* the same back-offset or base hash and the same inflated bytes.
C26_ReadBackEqualsParsed ==
    (pcall.op = "read_at_offset" /\ WellFormedPack) =>
        /\ parser.objects[pcall.entry][1] = PackStart(pspec, pcall.entry)
        /\ pcall.res = [kind |-> "Ok", obj |-> parser.objects[pcall.entry][3]]

\* the second entry of a well-formed pack, an OfsDelta, has been read back
C26_Witness ==
    /\ pcall.op = "read_at_offset"
    /\ WellFormedPack
    /\ pcall.entry = 2
    /\ pcall.res.kind = "Ok"
    /\ pcall.res.obj.t = "OfsDelta"
    /\ pcall.res.obj.offset = PackStart(pspec, 2) - PackStart(pspec, 1)

----------------------------------------------------------------------------
(* URLs: transport/url_parser.rs *)

(* A text is a sequence of tokens, each a piece of the text: a scheme with   *)
(* its "://" as one token, the separators "/", "@" and ":", the letter "a",  *)
(* the digit "1" and the suffix ".git".  Positions in a text are kept        *)
(* 0-based, as in the code; comparing the positions of two tokens is         *)
(* comparing the byte positions of their first bytes.                        *)

SchemeTokens == {"git://", "http://", "https://", "ssh://", "file://", "warara://"}

\* the scheme a scheme token names
SchemeOf(t) ==
    CASE t = "git://" -> "git"
      [] t = "http://" -> "http"
      [] t = "https://" -> "https"
      [] t = "ssh://" -> "ssh"
      [] t = "file://" -> "file"
      [] OTHER -> "warara"

\* str::find: the 0-based position of the first c in s, or None
str_find(s, c) ==
    IF \E i \in 1..Len(s) : s[i] = c
    THEN [some |-> TRUE, v |-> (CHOOSE i \in 1..Len(s) : s[i] = c /\ \A j \in 1..(i - 1) : s[j] # c) - 1]
    ELSE [some |-> FALSE]

\* str::rfind: the 0-based position of the last c in s, or None
str_rfind(s, c) ==
    IF \E i \in 1..Len(s) : s[i] = c
    THEN [some |-> TRUE, v |-> (CHOOSE i \in 1..Len(s) : s[i] = c /\ \A j \in (i + 1)..Len(s) : s[j] # c) - 1]
    ELSE [some |-> FALSE]

\* Option::unwrap_or
unwrap_or(o, d) == IF o.some THEN o.v ELSE d

NoneDir == [some |-> FALSE]

SomeDir(d) == [some |-> TRUE, v |-> d]

NoHost == [some |-> FALSE]

\* the tokens a scheme is made of after its first letter
IsSchemeChar(t) == t \in {"a", "1", ".git"}

\* a text that opens with a scheme written in letters, as in "a:a"
BareScheme(s) ==
    LET k == str_find(s, ":")
    IN  /\ k.some
        /\ k.v > 0
        /\ s[1] = "a"
        /\ \A i \in 1..k.v : IsSchemeChar(s[i])

\* Url::parse past "scheme://" for git, ssh, http, https and an unknown
\* scheme: the authority runs to the first "/", its user part to the last
\* "@", its host to the first ":" after that, and the port holds digits only.
\* http and https refuse an empty host and read an empty path as "/".
AfterDoubleSlash(scheme, r) ==
    LET special   == scheme \in {"http", "https"}
        slash     == str_find(r, "/")
        auth      == IF slash.some THEN Slice(r, 0, slash.v) ELSE r
        rest      == IF slash.some THEN SliceFrom(r, slash.v) ELSE <<>>
        at        == str_rfind(auth, "@")
        userinfo  == IF at.some THEN Slice(auth, 0, at.v) ELSE <<>>
        hostport  == IF at.some THEN SliceFrom(auth, at.v + 1) ELSE auth
        colon     == str_find(hostport, ":")
        host      == IF colon.some THEN Slice(hostport, 0, colon.v) ELSE hostport
        port      == IF colon.some THEN SliceFrom(hostport, colon.v + 1) ELSE <<>>
        has_authority == \E i \in 1..Len(userinfo) : userinfo[i] # ":"
    IN  IF host = <<>> /\ (colon.some \/ special \/ has_authority)
        THEN [kind |-> "Err", err |-> "EmptyHost"]
        ELSE IF \E i \in 1..Len(port) : port[i] # "1"
        THEN [kind |-> "Err", err |-> "InvalidPort"]
        ELSE [kind |-> "Ok",
              url |-> [scheme |-> scheme,
                       username |-> userinfo,
                       host |-> IF host = <<>> THEN NoHost ELSE [some |-> TRUE, v |-> host],
                       port |-> port,
                       path |-> IF special /\ rest = <<>> THEN <<"/">> ELSE rest]]

\* Url::parse past "file://": the host runs to the first "/" and holds no
\* "@" and no ":", and an empty path is read as "/"
AfterFileSlashes(r) ==
    LET slash == str_find(r, "/")
        host  == IF slash.some THEN Slice(r, 0, slash.v) ELSE r
        rest  == IF slash.some THEN SliceFrom(r, slash.v) ELSE <<>>
    IN  IF \E i \in 1..Len(host) : host[i] \in {"@", ":"}
        THEN [kind |-> "Err", err |-> "InvalidDomainCharacter"]
        ELSE [kind |-> "Ok",
              url |-> [scheme |-> "file",
                       username |-> <<>>,
                       host |-> IF host = <<>> THEN NoHost ELSE [some |-> TRUE, v |-> host],
                       port |-> <<>>,
                       path |-> IF rest = <<>> THEN <<"/">> ELSE rest]]

\* Url::parse of the url crate, on the texts of this model
Url_parse(s) ==
    IF s # <<>> /\ s[1] \in SchemeTokens
    THEN IF s[1] = "file://" THEN AfterFileSlashes(Tail(s))
         ELSE AfterDoubleSlash(SchemeOf(s[1]), Tail(s))
    ELSE IF BareScheme(s)
    THEN LET k == str_find(s, ":").v
             r == SliceFrom(s, k + 1)
         IN  IF Len(r) >= 2 /\ r[1] = "/" /\ r[2] = "/"
             THEN AfterDoubleSlash("a", SliceFrom(r, 2))
             ELSE [kind |-> "Ok",
                   url |-> [scheme |-> "a", username |-> <<>>, host |-> NoHost,
                            port |-> <<>>, path |-> r]]
    ELSE [kind |-> "Err", err |-> "RelativeUrlWithoutBase"]

RECURSIVE trim_end_matches_git(_)
\* str::trim_end_matches(".git"): every ".git" at the end is taken off
trim_end_matches_git(s) ==
    IF s # <<>> /\ s[Len(s)] = ".git"
    THEN trim_end_matches_git(SubSeq(s, 1, Len(s) - 1))
    ELSE s

det_output_dir(remote_path, dir) ==
    LET p      == str_rfind(remote_path, "/")
        result == IF p.some
                  THEN (IF dir.some THEN dir.v ELSE SliceFrom(remote_path, p.v + 1))
                  ELSE (IF dir.some THEN dir.v ELSE remote_path)
    IN  trim_end_matches_git(result)

UrlErr(e) == [kind |-> "Err", err |-> e]

\* a parse_git that lets an empty path through
parse_git_AnyPath(url, dir) ==
    IF ~url.host.some THEN UrlErr("NoServer")
    ELSE [kind |-> "Ok", type |-> "GIT", url |-> url, dir |-> det_output_dir(url.path, dir)]

parse_git(url, dir) ==
    IF ~url.host.some THEN UrlErr("NoServer")
    ELSE IF url.path = <<>> THEN UrlErr("NoPath")
    ELSE [kind |-> "Ok", type |-> "GIT", url |-> url, dir |-> det_output_dir(url.path, dir)]

parse_http(url, dir) ==
    IF ~url.host.some THEN UrlErr("NoServer")
    ELSE IF url.path = <<>> \/ url.path = <<"/">> THEN UrlErr("NoPath")
    ELSE [kind |-> "Ok", type |-> "HTTP", url |-> url, dir |-> det_output_dir(url.path, dir)]

parse_ssh(url, dir) ==
    IF ~url.host.some THEN UrlErr("NoServer")
    ELSE IF url.path = <<>> \/ url.path = <<"/">> THEN UrlErr("NoPath")
    ELSE [kind |-> "Ok", type |-> "SSH", url |-> url, dir |-> det_output_dir(url.path, dir)]

parse_file(url, dir) ==
    IF url.path = <<>> \/ url.path = <<"/">> THEN UrlErr("InvalidPath")
    ELSE [kind |-> "Ok", type |-> "FILE", path |-> url.path, dir |-> det_output_dir(url.path, dir)]

RECURSIVE url_parser_parse(_, _)

parse_local(url, dir) ==
    IF url = <<>> THEN UrlErr("Empty")
    ELSE IF \E i \in 1..Len(url) : url[i] = "@"
    THEN LET pos_a == unwrap_or(str_find(url, "@"), 0)
             pos_b == unwrap_or(str_find(url, ":"), 0)
             pos_c == unwrap_or(str_rfind(url, ":"), 0)
         IN  IF /\ pos_b = pos_c
                /\ pos_b > pos_a
                /\ pos_b < Len(url) - 1
                /\ At(url, pos_b + 1) # "/"
             THEN url_parser_parse(<<"ssh://">> \o Slice(url, 0, pos_b) \o <<"/">>
                                       \o SliceFrom(url, pos_b + 1), dir)
             ELSE url_parser_parse(<<"ssh://">> \o url, dir)
    ELSE [kind |-> "Ok", type |-> "LOCAL", path |-> url, dir |-> det_output_dir(url, dir)]

\* url_parser::parse
url_parser_parse(url, dir) ==
    LET r == Url_parse(url)
    IN  IF r.kind = "Ok"
        THEN CASE r.url.scheme = "git" -> parse_git(r.url, dir)
               [] r.url.scheme \in {"http", "https"} -> parse_http(r.url, dir)
               [] r.url.scheme = "ssh" -> parse_ssh(r.url, dir)
               [] r.url.scheme = "file" -> parse_file(r.url, dir)
               [] OTHER -> UrlErr("BadScheme")
        ELSE IF r.err = "EmptyHost" THEN UrlErr("NoServer")
        ELSE IF r.err = "RelativeUrlWithoutBase" THEN parse_local(url, dir)
        ELSE UrlErr(r.err)

----------------------------------------------------------------------------
(* URLs: the texts parsed and the call *)

\* a URL written from its parts: scheme://[user@]host[:port]path
UrlText(u) ==
    <<u.scheme>>
        \o (IF u.user # <<>> THEN u.user \o <<"@">> ELSE <<>>)
        \o u.host
        \o (IF u.port # <<>> THEN <<":">> \o u.port ELSE <<>>)
        \o u.path

UrlPaths ==
    { <<>>, <<"/">>, <<"/", "a">>, <<"/", "a", ".git">>, <<"/", "a", "/">>,
      <<"/", "a", "/", "a", ".git", ".git">> }

\* the parts URLs are written from; a file URL has no user and no port
UrlSpecs ==
    { u \in [scheme : SchemeTokens, user : {<<>>, <<"a">>}, host : {<<>>, <<"a">>},
             port : {<<>>, <<"1">>}, path : UrlPaths] :
        u.scheme = "file://" => (u.user = <<>> /\ u.port = <<>>) }

\* the texts without a scheme token
LocalTexts == UNION { [1..n -> {"a", "/", "@", ":", ".git"}] : n \in 0..MaxUrlLen }

UrlDirs == { NoneDir, SomeDir(<<"a">>), SomeDir(<<"a", ".git">>) }

UrlInit ==
    /\ uurl \in { UrlText(u) : u \in UrlSpecs } \cup LocalTexts
    /\ udir \in UrlDirs
    /\ ucall = [kind |-> "none"]
    /\ IdxIdle
    /\ DeltaIdle
    /\ ObjIdle
    /\ PackIdle
    /\ StreamIdle
    /\ ReqIdle
    /\ OfsIdle

\* the call url_parser::parse(url, dir)
UrlParse ==
    /\ ucall.kind = "none"
    /\ ucall' = url_parser_parse(uurl, udir)
    /\ UNCHANGED <<uurl, udir>>

UrlNext ==
    \/ UrlParse /\ UNCHANGED <<idxVars, deltaVars, objVars, packVars, streamVars, reqVars, ofsVars>>

SpecUrl == UrlInit /\ [][UrlNext]_vars

----------------------------------------------------------------------------
(* Claims about URLs *)

\* the text after the last "/" of a path, or the path when it holds no "/"
LastSegment(path) ==
    LET k == CHOOSE k \in 0..Len(path) :
                 /\ k = 0 \/ path[k] = "/"
                 /\ \A j \in (k + 1)..Len(path) : path[j] # "/"
    IN  SubSeq(path, k + 1, Len(path))

\* d is base without the ".git"s base ends with
WithoutGit(d, base) ==
    /\ d = <<>> \/ d[Len(d)] # ".git"
    /\ \E n \in 0..Len(base) : base = d \o [i \in 1..n |-> ".git"]

\* the output directory of a call with this dir on a URL with this path
OutputDirOf(d, path, dir) ==
    WithoutGit(d, IF dir.some THEN dir.v ELSE LastSegment(path))

\* what parse is to return for the URL written from the parts u; a git URL
\* with an empty path is an error when gitNeedsPath
UrlOutcome(u, gitNeedsPath) ==
    LET scheme == SchemeOf(u.scheme)
        type   == CASE scheme = "git" -> "GIT"
                    [] scheme \in {"http", "https"} -> "HTTP"
                    [] scheme = "ssh" -> "SSH"
                    [] OTHER -> "FILE"
        bad    == \/ scheme = "warara"
                  \/ scheme \in {"git", "http", "https", "ssh"} /\ u.host = <<>>
                  \/ scheme \in {"http", "https", "ssh"} /\ u.path \in {<<>>, <<"/">>}
                  \/ scheme = "file" /\ u.path \in {<<>>, <<"/">>}
                  \/ gitNeedsPath /\ scheme = "git" /\ u.path = <<>>
    IN  IF bad THEN ucall.kind = "Err"
        ELSE /\ ucall.kind = "Ok"
             /\ ucall.type = type
             /\ type = "FILE" => ucall.path = u.path
             /\ type # "FILE" => /\ ucall.url.scheme = scheme
                                 /\ ucall.url.host = [some |-> TRUE, v |-> u.host]
                                 /\ ucall.url.path = u.path
             /\ OutputDirOf(ucall.dir, u.path, udir)

\* a name: letters and ".git", at least one
IsName(s) == s # <<>> /\ \A i \in 1..Len(s) : s[i] \in {"a", ".git"}

\* the text is user@host:path with a path that holds no ":" and is not "/":
\* parse is to return the ssh URL of that user, host and path
ScpOutcome ==
    \A a \in 1..Len(uurl), b \in 1..Len(uurl) :
        (/\ uurl[a] = "@" /\ uurl[b] = ":" /\ a < b /\ b < Len(uurl)
         /\ IsName(SubSeq(uurl, 1, a - 1))
         /\ IsName(SubSeq(uurl, a + 1, b - 1))
         /\ \A j \in (b + 1)..Len(uurl) : uurl[j] # ":"
         /\ SubSeq(uurl, b + 1, Len(uurl)) # <<"/">>)
        => LET path == SubSeq(uurl, b + 1, Len(uurl))
               abs  == IF path[1] = "/" THEN path ELSE <<"/">> \o path
           IN  /\ ucall.kind = "Ok"
               /\ ucall.type = "SSH"
               /\ ucall.url.username = SubSeq(uurl, 1, a - 1)
               /\ ucall.url.host = [some |-> TRUE, v |-> SubSeq(uurl, a + 1, b - 1)]
               /\ ucall.url.path = abs
               /\ OutputDirOf(ucall.dir, abs, udir)

\* the text opens with no scheme: it holds no ":", or it does not start with
\* a letter, or a "/" comes before its first ":"
HasNoScheme(s) ==
    /\ s # <<>>
    /\ s[1] \notin SchemeTokens
    /\ \/ \A i \in 1..Len(s) : s[i] # ":"
       \/ s[1] # "a"
       \/ \E i \in 1..Len(s) : s[i] = "/" /\ \A j \in 1..i : s[j] # ":"

\* parse is to return the local path uurl
LocalOutcome ==
    /\ ucall.kind = "Ok"
    /\ ucall.type = "LOCAL"
    /\ ucall.path = uurl
    /\ OutputDirOf(ucall.dir, uurl, udir)

----------------------------------------------------------------------------
(* The back-offset of an OfsDelta: the two read_offset *)

\* the encodings decoded: every one of one byte and of two bytes, and those
\* of three to MaxOfsLen bytes whose bytes have the low bits 0, 1, 72 or 127
OfsEncodings ==
    { <<c>> : c \in 0..127 }
    \cup { <<b, c>> : b \in 128..255, c \in 0..127 }
    \cup UNION { { [i \in 1..n |-> IF i = n THEN f[i] ELSE 128 + f[i]] :
                      f \in [1..n -> {0, 1, 72, 127}] } : n \in 3..MaxOfsLen }

\* an encoding, alone or with a byte after it; or an encoding without its
\* last byte
OfsInputs ==
    OfsEncodings
    \cup { e \o <<200>> : e \in OfsEncodings }
    \cup { SubSeq(e, 1, Len(e) - 1) : e \in { x \in OfsEncodings : Len(x) >= 3 } }

OfsInit ==
    /\ obytes \in OfsInputs
    /\ ocall = [op |-> "none"]
    /\ IdxIdle
    /\ DeltaIdle
    /\ ObjIdle
    /\ PackIdle
    /\ StreamIdle
    /\ UrlIdle
    /\ ReqIdle

\* PackFileParser::read_offset(0) on a parser that holds the bytes, and
\* ObjectReader::read_offset on a reader that stands at their start
OfsRead ==
    /\ ocall.op = "none"
    /\ ocall' = [op |-> "read_offset",
                 parser |-> read_offset(obytes, 0),
                 reader |-> reader_read_offset(obytes, 0)]
    /\ UNCHANGED obytes

OfsNext ==
    \/ OfsRead /\ UNCHANGED <<idxVars, deltaVars, objVars, packVars, streamVars, urlVars, reqVars>>

SpecOffset == OfsInit /\ [][OfsNext]_vars

----------------------------------------------------------------------------
(* Claims about the back-offset *)

\* the n bytes before the last byte of the encoding of a back-offset: v is
\* what is left above the last 7 bits
RECURSIVE OfsPrefix(_)
OfsPrefix(v) ==
    IF v = 0 THEN <<>>
    ELSE OfsPrefix((v - 1) \div 128) \o <<128 + ((v - 1) % 128)>>

\* the encoding of the back-offset v in the pack format
OfsEncode(v) == OfsPrefix(v \div 128) \o <<v % 128>>

\* the bytes of obytes that make one encoding: up to the first byte below 128
OfsFirst(bytes) ==
    LET k == CHOOSE k \in 1..Len(bytes) :
                 bytes[k] < 128 /\ \A j \in 1..(k - 1) : bytes[j] >= 128
    IN  SubSeq(bytes, 1, k)

\* C25: read_offset takes c & 0x7f of the first byte and
\* ((offset + 1) << 7) | (c & 0x7f) for each byte after it; distinct byte
\* sequences decode to distinct offsets (the offset decoded has one encoding,
\* the bytes read), one byte gives 0..127 and two bytes give 128..16511, every
\* offset below the one decoded is decoded from a sequence that is no longer,
\* and the parser and the ObjectReader return the same offset and consume
\* the same number of bytes.
C25_OffsetDecoding ==
    ocall.op = "read_offset" =>
        LET p == ocall.parser
            r == ocall.reader
        IN  /\ p.ok = r.ok
            /\ p.ok = (\E k \in 1..Len(obytes) : obytes[k] < 128)
            /\ p.ok =>
                  LET e == OfsFirst(obytes)
                  IN  /\ p.offset = r.offset
                      /\ p.consumed = r.consumed
                      /\ p.consumed = Len(e)
                      /\ OfsEncode(p.offset) = e
                      /\ Len(e) = 1 => p.offset = e[1]
                      /\ Len(e) = 2 => p.offset = (e[1] - 128 + 1) * 128 + e[2]
                      /\ Len(e) = 1 <=> p.offset \in 0..127
                      /\ Len(e) = 2 <=> p.offset \in 128..16511
                      /\ p.offset > 0 =>
                            LET below == read_offset(OfsEncode(p.offset - 1), 0)
                            IN  /\ below.ok
                                /\ below.offset = p.offset - 1
                                /\ below.consumed <= Len(e)

\* the two decoders have read the largest back-offset of two bytes, 16511,
\* from 0xff 0x7f with a byte after it
C25_Witness ==
    /\ obytes = <<255, 127, 200>>
    /\ ocall.op = "read_offset"
    /\ ocall.parser = [ok |-> TRUE, offset |-> 16511, consumed |-> 2]
    /\ ocall.reader = [ok |-> TRUE, offset |-> 16511, consumed |-> 2]

----------------------------------------------------------------------------
(* The negotiation request: transport/client/packet.rs.  A String is the    *)
(* sequence of its bytes.                                                   *)

\* most refs in the list handed to create_packfile_negotiation_request
MaxRefs == 3

\* "want "
WantText == <<119, 97, 110, 116, 32>>

\* "done\n"
DoneText == <<100, 111, 110, 101, 10>>

\* " " and "\n"
SpaceChar == 32

NewlineChar == 10

\* REQUIRED_CAPABILTIES of http_client.rs: "multi_ack_detailed",
\* "side-band-64k", "agent=git/1.8.1"
REQUIRED_CAPABILTIES ==
    << <<109, 117, 108, 116, 105, 95, 97, 99, 107, 95, 100, 101, 116, 97, 105, 108, 101, 100>>,
       <<115, 105, 100, 101, 45, 98, 97, 110, 100, 45, 54, 52, 107>>,
       <<97, 103, 101, 110, 116, 61, 103, 105, 116, 47, 49, 46, 56, 46, 49>> >>

\* [&str]::join(" ")
RECURSIVE join(_)
join(strs) ==
    IF Len(strs) = 0 THEN <<>>
    ELSE IF Len(strs) = 1 THEN strs[1]
    ELSE strs[1] \o <<SpaceChar>> \o join(Tail(strs))

\* the lowercase hex digits of n, most significant first, none for 0
RECURSIVE HexDigits(_)
HexDigits(n) ==
    IF n = 0 THEN <<>> ELSE Append(HexDigits(n \div 16), HexDigit(n % 16))

\* format!("{:04x}", n): the hex digits of n, filled with zeros on the left
\* up to four; a number above 0xffff takes more than four
format_04x(n) ==
    LET ds == HexDigits(n)
    IN  [i \in 1..(IF Len(ds) < 4 THEN 4 - Len(ds) ELSE 0) |-> 48] \o ds

\* packet_line with the length of the message alone in front
packet_line_LenOnly(msg) == format_04x(Len(msg)) \o msg

\* packet_line(msg): format!("{:04x}{}", 4 + msg.len(), msg)
packet_line(msg) == format_04x(4 + Len(msg)) \o msg

\* flush_packet(): format!("{:04x}", 0)
flush_packet == format_04x(0)

\* the line the loop writes for the id o of the ref at index i
want_line(capabilities, o, i) ==
    IF i = 0
    THEN WantText \o o \o <<SpaceChar>> \o join(capabilities) \o <<NewlineChar>>
    ELSE WantText \o o \o <<NewlineChar>>

----------------------------------------------------------------------------
(* The negotiation request: the refs and the call *)

\* ids of refs: two object ids of 40 hex digits and a short one, whose want
\* line has the length 0x000f
RefIds ==
    { [i \in 1..40 |-> 97], [i \in 1..40 |-> IF i % 2 = 1 THEN 49 ELSE 102], <<99, 48, 102, 102, 101>> }

\* "HEAD"
HeadName == <<72, 69, 65, 68>>

ReqRefLists ==
    UNION { [1..n -> { [id |-> o, name |-> HeadName] : o \in RefIds }] : n \in 0..MaxRefs }

ReqInit ==
    /\ qcaps \in { <<>>, REQUIRED_CAPABILTIES }
    /\ qrefs \in ReqRefLists
    /\ qi = 0
    /\ qids = {}
    /\ qlines = <<>>
    /\ qout = NoRequest
    /\ IdxIdle
    /\ DeltaIdle
    /\ ObjIdle
    /\ PackIdle
    /\ StreamIdle
    /\ UrlIdle
    /\ OfsIdle

\* one turn of the loop over refs.iter().enumerate()
ReqWant ==
    /\ qout = NoRequest
    /\ qi < Len(qrefs)
    /\ qi' = qi + 1
    /\ LET o == qrefs[qi + 1].id
       IN  IF o \in qids
           THEN UNCHANGED <<qids, qlines>>
           ELSE /\ qids' = qids \cup {o}
                /\ qlines' = Append(qlines, packet_line(want_line(qcaps, o, qi)))
    /\ UNCHANGED <<qcaps, qrefs, qout>>

\* after the loop: the flush packet, the done line, and lines.concat()
ReqReturn ==
    /\ qout = NoRequest
    /\ qi = Len(qrefs)
    /\ qlines' = qlines \o <<flush_packet, packet_line(DoneText)>>
    /\ qout' = [kind |-> "Ok", text |-> Flatten(qlines')]
    /\ UNCHANGED <<qcaps, qrefs, qi, qids>>

ReqNext ==
    \/ ReqWant /\ UNCHANGED <<idxVars, deltaVars, objVars, packVars, streamVars, urlVars, ofsVars>>
    \/ ReqReturn /\ UNCHANGED <<idxVars, deltaVars, objVars, packVars, streamVars, urlVars, ofsVars>>

SpecReq == ReqInit /\ [][ReqNext]_vars

----------------------------------------------------------------------------
(* Claims about the negotiation request *)

\* a text read as pkt-lines: four hex digits n, then n - 4 bytes of payload,
\* 0000 being the flush packet; Malformed where the text is no pkt-line
FlushPkt == [flush |-> TRUE, payload |-> <<>>]

DataPkt(p) == [flush |-> FALSE, payload |-> p]

MalformedPkt == [flush |-> FALSE, payload |-> <<>>]

RECURSIVE PktLines(_)
PktLines(text) ==
    IF text = <<>> THEN <<>>
    ELSE IF Len(text) < 4 \/ \E i \in 1..4 : HexValue(text[i]) < 0 \/ text[i] \in 65..70
    THEN <<MalformedPkt>>
    ELSE LET n == 4096 * HexValue(text[1]) + 256 * HexValue(text[2])
                  + 16 * HexValue(text[3]) + HexValue(text[4])
         IN  IF n = 0 THEN <<FlushPkt>> \o PktLines(SubSeq(text, 5, Len(text)))
             ELSE IF n <= 4 \/ n > Len(text) THEN <<MalformedPkt>>
             ELSE <<DataPkt(SubSeq(text, 5, n))>> \o PktLines(SubSeq(text, n + 1, Len(text)))

\* the ids of the refs, each once, in the order of their first occurrence
RECURSIVE DistinctIds(_)
DistinctIds(refs) ==
    IF refs = <<>> THEN <<>>
    ELSE LET n    == Len(refs)
             init == DistinctIds(SubSeq(refs, 1, n - 1))
         IN  IF \E j \in 1..(n - 1) : refs[j].id = refs[n].id
             THEN init ELSE Append(init, refs[n].id)

\* C30: the request is, in order, one pkt-line "want <id>" per distinct ref
\* id in first-occurrence order, the capability list on the first of them
\* and on no other, then the flush packet 0000, then the pkt-line "done\n";
\* each pkt-line begins with four hex digits that give 4 plus the length of
\* its payload.
C30_RequestLayout ==
    qout.kind = "Ok" =>
        LET ids   == DistinctIds(qrefs)
            wants == [k \in 1..Len(ids) |->
                        DataPkt(IF k = 1
                                THEN WantText \o ids[k] \o <<SpaceChar>> \o join(qcaps)
                                         \o <<NewlineChar>>
                                ELSE WantText \o ids[k] \o <<NewlineChar>>)]
        IN  PktLines(qout.text) = wants \o <<FlushPkt, DataPkt(DoneText)>>

\* the request for three refs of which the first and the last have the same
\* id, with the required capabilities: two want lines
C30_Witness ==
    /\ qout.kind = "Ok"
    /\ qcaps = REQUIRED_CAPABILTIES
    /\ Len(qrefs) = 3
    /\ qrefs[1].id = qrefs[3].id
    /\ qrefs[1].id # qrefs[2].id
    /\ Len(qlines) = 4
    /\ SubSeq(qout.text, 1, 4) = <<48, 48, 54, 51>>

====
